---- MODULE Spec2Model ----
(***************************************************************************)
(* A model of the NSW property data service (src/server.js): the record    *)
(* parser, the chunk/index writer and the cached read side.                *)
(*                                                                         *)
(* JavaScript strings are TLA+ strings and are taken apart character by    *)
(* character, so that case conversion, trimming, splitting, number         *)
(* parsing and the base64 address hash are computed, not assumed.          *)
(* Numbers that parseFloat produces are kept in tenths (Scale), so that    *)
(* 1000.5 and 1000 differ and 50,000,000 still fits a 32-bit integer.      *)
(***************************************************************************)
EXTENDS Integers, Sequences, FiniteSets, TLC

(***************************************************************************)
(* String primitives of the runtime                                        *)
(***************************************************************************)
Char(s, i) == SubSeq(s, i, i)

\* F applied to the value of x, and to the values of x and y (const
\* bindings: the bound expression is evaluated once)
Let(x, F(_)) == CHOOSE r \in { F(v) : v \in { x } } : TRUE
Let2(x, y, F(_, _)) == CHOOSE r \in { F(v, w) : v \in { x }, w \in { y } } : TRUE

\* the least element of a non-empty set of integers
Least(S) == Let(S, LAMBDA T : CHOOSE i \in T : \A j \in T : i <= j)

\* the elements of a set of integers in ascending order
Ascending(S) ==
  Let(S, LAMBDA T :
    [ k \in 1..Cardinality(T) |->
        CHOOSE x \in T : Cardinality({ y \in T : y < x }) = k - 1 ])

\* the first position >= i at which the one-character string c occurs in s,
\* 0 when there is none
IndexFrom(c, s, i) ==
  Let2(c, s, LAMBDA cv, sv :
    Let({ k \in i..Len(sv) : Char(sv, k) = cv },
        LAMBDA P : IF P = {} THEN 0 ELSE Least(P)))

\* position of the one-character string c in s, 0 when absent
IndexOf(c, s) == IndexFrom(c, s, 1)

UpperChars == "ABCDEFGHIJKLMNOPQRSTUVWXYZ"
LowerChars == "abcdefghijklmnopqrstuvwxyz"
DigitChars == "0123456789"

\* the character of to at the place c has in from, c when it has none
MapChar(c, from, to) ==
  Let(IndexOf(c, from), LAMBDA k : IF k = 0 THEN c ELSE Char(to, k))

RECURSIVE Concat(_, _)
\* the concatenation of the strings parts[i..]
Concat(parts, i) == IF i > Len(parts) THEN "" ELSE parts[i] \o Concat(parts, i + 1)

\* s with each character of from replaced by the character of to at its place
MapChars(s, from, to) ==
  Let(s, LAMBDA sv :
    Let([ i \in 1..Len(sv) |-> MapChar(Char(sv, i), from, to) ],
        LAMBDA chars : Concat(chars, 1)))

\* String.prototype.toLowerCase / toUpperCase on the ASCII range
toLowerCase(s) == MapChars(s, UpperChars, LowerChars)
toUpperCase(s) == MapChars(s, LowerChars, UpperChars)

IsSpace(c) == c \in { " ", "\t", "\r", "\n" }

\* String.prototype.trimStart / trimEnd
trimStart(s) ==
  Let(s, LAMBDA sv :
    Let({ i \in 1..Len(sv) : ~IsSpace(Char(sv, i)) },
        LAMBDA P : IF P = {} THEN "" ELSE SubSeq(sv, Least(P), Len(sv))))

trimEnd(s) ==
  Let(s, LAMBDA sv :
    Let({ i \in 1..Len(sv) : ~IsSpace(Char(sv, i)) },
        LAMBDA P : IF P = {} THEN "" ELSE SubSeq(sv, 1, 0 - Least({ 0 - i : i \in P }))))

\* String.prototype.trim
trim(s) == trimEnd(trimStart(s))

\* String.prototype.includes: sub occurs in s as a contiguous substring
includes(s, sub) ==
  Let2(s, sub, LAMBDA sv, subv :
    \E i \in 1..(Len(sv) - Len(subv) + 1) : SubSeq(sv, i, i + Len(subv) - 1) = subv)

\* String.prototype.startsWith
startsWith(s, pre) ==
  Let2(s, pre, LAMBDA sv, prev : Len(sv) >= Len(prev) /\ SubSeq(sv, 1, Len(prev)) = prev)

\* String.prototype.split on a one-character separator: the pieces between
\* the occurrences of sep
split(s, sep) ==
  Let2(s, sep, LAMBDA sv, sepv :
    Let(Ascending({ k \in 1..Len(sv) : Char(sv, k) = sepv }),
        LAMBDA at :
          [ j \in 1..(Len(at) + 1) |->
              SubSeq(sv, IF j = 1 THEN 1 ELSE at[j - 1] + 1,
                         IF j = Len(at) + 1 THEN Len(sv) ELSE at[j] - 1) ]))

RECURSIVE JoinFrom(_, _, _)
JoinFrom(parts, i, sep) ==
  IF i > Len(parts) THEN ""
  ELSE IF i = Len(parts) THEN parts[i]
  ELSE parts[i] \o sep \o JoinFrom(parts, i + 1, sep)

\* Array.prototype.join
Join(parts, sep) == Let(parts, LAMBDA pv : JoinFrom(pv, 1, sep))

\* String(n) for a natural number
RECURSIVE NatToString(_)
NatToString(n) ==
  Let(n, LAMBDA nv :
    IF nv < 10 THEN Char(DigitChars, nv + 1)
    ELSE NatToString(nv \div 10) \o Char(DigitChars, (nv % 10) + 1))

\* String.prototype.padStart(width, "0")
RECURSIVE padStart(_, _)
padStart(s, width) ==
  Let(s, LAMBDA sv : IF Len(sv) >= width THEN sv ELSE padStart("0" \o sv, width))

(***************************************************************************)
(* Number parsing.  NaN is a value outside the numbers in use; numbers     *)
(* from parseFloat are in tenths.                                          *)
(***************************************************************************)
Scale == 10
NaN == -2000000001

IsDigit(c) == IndexOf(c, DigitChars) > 0
DigitVal(c) == IndexOf(c, DigitChars) - 1

\* the length of the run of digits of s that starts at position i
DigitRun(s, i) ==
  Let2(s, i, LAMBDA sv, iv :
    IF iv > Len(sv) THEN 0
    ELSE Least({ k \in iv..(Len(sv) + 1) : k = Len(sv) + 1 \/ ~IsDigit(Char(sv, k)) }) - iv)

RECURSIVE DigitsUpTo(_, _)
DigitsUpTo(s, n) ==
  IF n = 0 THEN 0 ELSE 10 * DigitsUpTo(s, n - 1) + DigitVal(Char(s, n))

\* the value of the digit string s
DigitsValue(s) == Let(s, LAMBDA sv : DigitsUpTo(sv, Len(sv)))

\* s without leading blanks, split into its sign and the rest
Signed(s) ==
  Let(trimStart(s), LAMBDA t :
    IF t # "" /\ Char(t, 1) \in { "-", "+" }
    THEN [ neg |-> Char(t, 1) = "-", rest |-> SubSeq(t, 2, Len(t)) ]
    ELSE [ neg |-> FALSE, rest |-> t ])

\* parseInt(s) for decimal input: leading blanks, a sign, the longest run
\* of digits; NaN when there is no digit
parseInt(s) ==
  Let(Signed(s), LAMBDA t :
    Let(DigitRun(t.rest, 1), LAMBDA n :
      IF n = 0 THEN NaN
      ELSE Let(DigitsValue(SubSeq(t.rest, 1, n)),
               LAMBDA v : IF t.neg THEN 0 - v ELSE v)))

\* parseFloat(s) in tenths: leading blanks, a sign, digits, and a fraction
\* of which one digit is kept; NaN when there is no digit
parseFloat(s) ==
  Let(Signed(s), LAMBDA t :
    Let(DigitRun(t.rest, 1), LAMBDA n :
      Let(IF n < Len(t.rest) /\ Char(t.rest, n + 1) = "."
          THEN DigitRun(t.rest, n + 2) ELSE 0,
          LAMBDA f :
            IF n = 0 /\ f = 0 THEN NaN
            ELSE Let(Scale * DigitsValue(SubSeq(t.rest, 1, n))
                     + DigitsValue(SubSeq(SubSeq(t.rest, n + 2, n + 1 + f) \o "0", 1, 1)),
                     LAMBDA v : IF t.neg THEN 0 - v ELSE v))))

\* x || 0 for a number x
OrZero(x) == Let(x, LAMBDA v : IF v = NaN \/ v = 0 THEN 0 ELSE v)


(***************************************************************************)
(* JavaScript values that are not strings or numbers                       *)
(***************************************************************************)
\* null where an object is expected
null == [null |-> TRUE]
\* null where a string is expected (no string the program builds is this one)
NullStr == "<null>"

\* truthiness of a string-or-null value
Truthy(s) == s # "" /\ s # NullStr

\* a || b for string-or-null values
Or(a, b) == Let(a, LAMBDA v : IF Truthy(v) THEN v ELSE b)

(***************************************************************************)
(* Array.prototype.sort as the runtime (V8) performs it for arrays shorter *)
(* than 64 elements: the leading run is counted (and reversed when it is   *)
(* strictly descending), the rest is inserted by binary insertion.  The    *)
(* comparator Cmp yields a number or NaN, and NaN counts as 0.             *)
(***************************************************************************)
Compare(Cmp(_, _), a, b) == Let(Cmp(a, b), LAMBDA v : IF v = NaN THEN 0 ELSE v)

Reverse(s) == Let(s, LAMBDA v : [ i \in 1..Len(v) |-> v[Len(v) + 1 - i] ])

\* the length of the run that starts at s[1]; desc says which kind it is
RECURSIVE RunEnd(_, _, _, _)
RunEnd(Cmp(_, _), s, idx, desc) ==
  IF idx > Len(s) THEN idx - 1
  ELSE Let(Compare(Cmp, s[idx], s[idx - 1]),
           LAMBDA order :
             IF (desc /\ order >= 0) \/ (~desc /\ order < 0) THEN idx - 1
             ELSE RunEnd(Cmp, s, idx + 1, desc))

\* the place where pivot goes among s[1..right-1], by bisection
RECURSIVE Bisect(_, _, _, _, _)
Bisect(Cmp(_, _), s, pivot, left, right) ==
  IF left >= right THEN left
  ELSE Let(left + ((right - left) \div 2),
           LAMBDA mid :
             IF Compare(Cmp, pivot, s[mid]) < 0
             THEN Bisect(Cmp, s, pivot, left, mid)
             ELSE Bisect(Cmp, s, pivot, mid + 1, right))

RECURSIVE BinaryInsertionSort(_, _, _)
BinaryInsertionSort(Cmp(_, _), s, start) ==
  IF start > Len(s) THEN s
  ELSE Let(Bisect(Cmp, s, s[start], 1, start),
           LAMBDA pos :
             Let(SubSeq(s, 1, pos - 1) \o << s[start] >> \o SubSeq(s, pos, start - 1)
                 \o SubSeq(s, start + 1, Len(s)),
                 LAMBDA moved : BinaryInsertionSort(Cmp, moved, start + 1)))

SortValue(Cmp(_, _), s) ==
  IF Len(s) < 2 THEN s
  ELSE Let(Compare(Cmp, s[2], s[1]) < 0,
           LAMBDA desc :
             Let(RunEnd(Cmp, s, 3, desc),
                 LAMBDA run :
                   Let(IF desc THEN Reverse(SubSeq(s, 1, run)) \o SubSeq(s, run + 1, Len(s))
                       ELSE s,
                       LAMBDA made : BinaryInsertionSort(Cmp, made, run + 1))))

sort(Cmp(_, _), s) == Let(s, LAMBDA v : SortValue(Cmp, v))

\* Array.prototype.slice(0, n) for n >= 0
slice(s, n) == Let(s, LAMBDA v : SubSeq(v, 1, IF n < Len(v) THEN n ELSE Len(v)))

\* Array.prototype.filter
FilterValue(Test(_), s) ==
  Let(Ascending({ i \in 1..Len(s) : Test(s[i]) }),
      LAMBDA kept : [ k \in 1..Len(kept) |-> s[kept[k]] ])

Filter(Test(_), s) == Let(s, LAMBDA v : FilterValue(Test, v))

\* Array.prototype.map
Map(F(_), s) == Let(s, LAMBDA v : [ i \in 1..Len(v) |-> F(v[i]) ])

Range(s) == Let(s, LAMBDA v : { v[i] : i \in 1..Len(v) })

(***************************************************************************)
(* RecordParser                                                            *)
(***************************************************************************)
\* a cascade that looks for UNIT before RESIDENCE
determinePropertyTypeUnitFirst(nature, purpose) ==
  Let2(nature, purpose, LAMBDA n, p :
    IF n = "V" THEN "Vacant Land"
    ELSE IF n = "R" THEN "Residence"
    ELSE IF p # "" /\ includes(p, "UNIT") THEN "Unit"
    ELSE IF p # "" /\ includes(p, "RESIDENCE") THEN "House"
    ELSE IF p # "" /\ includes(p, "TOWNHOUSE") THEN "Townhouse"
    ELSE IF n = "3" /\ p # "" THEN p
    ELSE "Property")

determinePropertyType(nature, purpose) ==
  Let2(nature, purpose, LAMBDA n, p :
    IF n = "V" THEN "Vacant Land"
    ELSE IF n = "R" THEN "Residence"
    ELSE IF p # "" /\ includes(p, "RESIDENCE") THEN "House"
    ELSE IF p # "" /\ includes(p, "UNIT") THEN "Unit"
    ELSE IF p # "" /\ includes(p, "TOWNHOUSE") THEN "Townhouse"
    ELSE IF n = "3" /\ p # "" THEN p
    ELSE "Property")

formatDate(dateStr) ==
  Let(dateStr, LAMBDA d :
    IF d = "" \/ Len(d) # 8 THEN NullStr
    ELSE SubSeq(d, 1, 4) \o "-" \o SubSeq(d, 5, 6) \o "-" \o SubSeq(d, 7, 8))

MinPrice == 1000
MaxPrice == 50000000
MinFields == 20

\* the full address built from unit, house number and street
ComposeAddress(unitNumber, houseNumber, streetName) ==
  toUpperCase(trim(
    (IF unitNumber # "" THEN unitNumber \o "/" ELSE "")
    \o (IF houseNumber # "" THEN houseNumber \o " " ELSE "")
    \o (IF streetName # "" THEN streetName ELSE "")))

\* the test of the essential fields with the price bounds taken inclusive
ValidPropertyInclusive(property) ==
  /\ property.address # ""
  /\ property.suburb # ""
  /\ property.salePrice >= MinPrice * Scale
  /\ property.salePrice <= MaxPrice * Scale

\* the test of the essential fields
ValidProperty(property) ==
  /\ property.address # ""
  /\ property.suburb # ""
  /\ property.salePrice > MinPrice * Scale
  /\ property.salePrice < MaxPrice * Scale

\* the property object built from the fields of a line
PropertyOf(fields, yr) ==
  [ recordType       |-> fields[1],
    districtCode     |-> fields[2],
    propertyId       |-> fields[3],
    saleCounter      |-> fields[4],
    downloadDateTime |-> fields[5],
    propertyName     |-> fields[6],
    unitNumber       |-> fields[7],
    houseNumber      |-> fields[8],
    streetName       |-> fields[9],
    locality         |-> fields[10],
    postcode         |-> fields[11],
    area             |-> OrZero(parseFloat(fields[12])),
    areaType         |-> fields[13],
    contractDate     |-> fields[14],
    settlementDate   |-> fields[15],
    salePrice        |-> OrZero(parseFloat(fields[16])),
    zoning           |-> fields[17],
    natureOfProperty |-> fields[18],
    primaryPurpose   |-> fields[19],
    strataLot        |-> fields[20],
    year             |-> yr,
    address          |-> ComposeAddress(fields[7], fields[8], fields[9]),
    suburb           |-> toUpperCase(fields[10]),
    propertyType     |-> determinePropertyType(fields[18], fields[19]),
    saleDate         |-> formatDate(fields[15]) ]

parsePropertyLine(ln, yr) ==
  Let(split(ln, ";"), LAMBDA fields :
    IF Len(fields) < MinFields THEN null
    ELSE Let(PropertyOf(fields, yr),
             LAMBDA property : IF ValidProperty(property) THEN property ELSE null))

\* the record a line of a raw data file contributes, null when it
\* contributes none
LineRecord(ln, yr) ==
  IF trim(ln) = "" \/ ~startsWith(ln, "B;") THEN null
  ELSE Let(parsePropertyLine(ln, yr),
           LAMBDA property :
             IF property # null /\ property.address # "" /\ property.salePrice > 0
             THEN property ELSE null)

\* the lines of one raw data file that become records
parseLines(lines, yr) ==
  LET IsRecord(r) == r # null
  IN  Filter(IsRecord, [ i \in 1..Len(lines) |-> LineRecord(lines[i], yr) ])

parseDATContentOptimized(content, yr) ==
  Let(split(content, "\n"), LAMBDA lines : parseLines(lines, yr))

(***************************************************************************)
(* Objects.  A JavaScript object is the sequence of its [key, val] entries *)
(* in the order Object.keys lists them: integer-like keys ascending, then  *)
(* the other keys in insertion order.  JSON.stringify and JSON.parse keep  *)
(* that order.                                                             *)
(***************************************************************************)
\* a canonical array index: digits, no leading zero, below 2^32 - 1
IsIndexKey(k) ==
  /\ k # ""
  /\ Len(k) <= 9
  /\ DigitRun(k, 1) = Len(k)
  /\ (Len(k) > 1 => Char(k, 1) # "0")

IsIndexEntry(e) == IsIndexKey(e.key)
IsNamedEntry(e) == ~IsIndexKey(e.key)

\* the entries of an object whose entries were inserted in the order ins
ObjectEntries(ins) ==
  Let(ins, LAMBDA e :
    Let(Filter(IsIndexEntry, e), LAMBDA idx :
      Let(Ascending({ DigitsValue(idx[i].key) : i \in 1..Len(idx) }), LAMBDA nums :
        [ j \in 1..Len(nums) |->
            idx[CHOOSE i \in 1..Len(idx) : DigitsValue(idx[i].key) = nums[j]] ]
        \o Filter(IsNamedEntry, e))))

\* Object.keys(obj)
ObjectKeys(obj) == Let(obj, LAMBDA o : [ i \in 1..Len(o) |-> o[i].key ])

HasKey(obj, k) == Let2(obj, k, LAMBDA o, kv : \E i \in 1..Len(o) : o[i].key = kv)

\* obj[k] for a key the object has
Get(obj, k) ==
  Let2(obj, k, LAMBDA o, kv : o[CHOOSE i \in 1..Len(o) : o[i].key = kv].val)

(***************************************************************************)
(* Compact field aliases                                                   *)
(***************************************************************************)
compressProperty(prop) ==
  Let(prop, LAMBDA v :
    ("a" :> v.address) @@ ("s" :> v.suburb) @@ ("p" :> v.postcode)
    @@ ("t" :> v.propertyType) @@ ("$" :> v.salePrice) @@ ("d" :> v.saleDate)
    @@ ("l" :> v.districtCode) @@ ("m" :> v.area) @@ ("y" :> v.year)
    @@ ("z" :> v.zoning) @@ ("n" :> v.natureOfProperty))

\* comp.x || comp.longName || default, for a record in the compact shape
\* (the long names are absent from it)
decompressProperty(comp) ==
  [ address          |-> Or(comp["a"], ""),
    suburb           |-> Or(comp["s"], ""),
    postcode         |-> Or(comp["p"], ""),
    propertyType     |-> Or(comp["t"], ""),
    salePrice        |-> OrZero(comp["$"]),
    saleDate         |-> Or(comp["d"], ""),
    districtCode     |-> Or(comp["l"], ""),
    area             |-> OrZero(comp["m"]),
    year             |-> OrZero(comp["y"]),
    zoning           |-> Or(comp["z"], ""),
    natureOfProperty |-> Or(comp["n"], "") ]

(***************************************************************************)
(* hashAddress: base64 of the address bytes, without "/", "+" and "=",     *)
(* cut to 12 characters                                                    *)
(***************************************************************************)
\* the printable ASCII characters 32..95 and 97..126
AsciiLow == " !\"#$%&'()*+,-./0123456789:;<=>?@ABCDEFGHIJKLMNOPQRSTUVWXYZ[\\]^_"
AsciiHigh == "abcdefghijklmnopqrstuvwxyz{|}~"
Base64Chars == "ABCDEFGHIJKLMNOPQRSTUVWXYZabcdefghijklmnopqrstuvwxyz0123456789+/"
HashLen == 12

\* the byte of a printable ASCII character
CharCode(c) ==
  Let(IndexOf(c, AsciiLow),
      LAMBDA k : IF k > 0 THEN 31 + k ELSE 96 + IndexOf(c, AsciiHigh))

B64(n) == Char(Base64Chars, n + 1)

\* the four characters that encode the bytes b[1..n] (n from 1 to 3)
Base64Group(b, n) ==
  B64(b[1] \div 4)
  \o B64((b[1] % 4) * 16 + (b[2] \div 16))
  \o (IF n >= 2 THEN B64((b[2] % 16) * 4 + (b[3] \div 64)) ELSE "=")
  \o (IF n >= 3 THEN B64(b[3] % 64) ELSE "=")

\* the encoding of the bytes of s from position i on, three at a time
Base64From(s, i) ==
  Let([ k \in 1..Len(s) |-> CharCode(Char(s, k)) ], LAMBDA bytes :
    Let([ g \in 1..((Len(s) - i + 3) \div 3) |->
            Let(i + 3 * (g - 1), LAMBDA at :
              Base64Group([ k \in 1..3 |-> IF at + k - 1 <= Len(s)
                                           THEN bytes[at + k - 1] ELSE 0 ],
                          Len(s) - at + 1)) ],
        LAMBDA groups : Concat(groups, 1)))

\* Buffer.from(s).toString('base64')
Base64(s) == Let(s, LAMBDA v : Base64From(v, 1))

\* s from position i on without the characters of chars
StripFrom(s, i, chars) ==
  Let([ k \in 1..(Len(s) - i + 1) |->
          Let(Char(s, i + k - 1), LAMBDA c : IF IndexOf(c, chars) > 0 THEN "" ELSE c) ],
      LAMBDA kept : Concat(kept, 1))

\* s.replace(/[chars]/g, '')
Strip(s, chars) == Let(s, LAMBDA v : StripFrom(v, 1, chars))

hashAddress(address) ==
  Let(Strip(Base64(address), "/+="),
      LAMBDA h : SubSeq(h, 1, IF Len(h) < HashLen THEN Len(h) ELSE HashLen))

(***************************************************************************)
(* ChunkWriter                                                             *)
(***************************************************************************)
\* the order localeCompare gives the characters of an uppercased address
CollationChars == " /0123456789ABCDEFGHIJKLMNOPQRSTUVWXYZ"

\* the comparison of a and b from position i on: decided by the first
\* position at which they differ, a proper prefix coming first
CompareFrom(a, b, i) ==
  Let({ k \in i..(IF Len(a) < Len(b) THEN Len(a) ELSE Len(b)) : Char(a, k) # Char(b, k) },
      LAMBDA differ :
        IF differ = {}
        THEN (IF Len(a) < Len(b) THEN -1 ELSE IF Len(a) > Len(b) THEN 1 ELSE 0)
        ELSE Let(Least(differ), LAMBDA k :
               IF IndexOf(Char(a, k), CollationChars) < IndexOf(Char(b, k), CollationChars)
               THEN -1 ELSE 1))

localeCompare(a, b) == Let2(a, b, LAMBDA av, bv : CompareFrom(av, bv, 1))

\* a comparator that orders the addresses descending
ByAddressDescending(a, b) == localeCompare(b.address, a.address)

\* (a, b) => a.address.localeCompare(b.address)
ByAddress(a, b) == localeCompare(a.address, b.address)

ChunkName(yr, i) ==
  "properties-" \o NatToString(yr) \o "-" \o padStart(NatToString(i), 3) \o ".json"

\* a chunk loop that stops before a chunk that would not be full
ChunkFilesWhole(yr, properties, chunkSize) ==
  Let(sort(ByAddress, properties), LAMBDA sorted :
    [ k \in 1..(Len(sorted) \div chunkSize) |->
        Let(SubSeq(sorted, (k - 1) * chunkSize + 1, k * chunkSize),
            LAMBDA chunkProperties :
              [ filename |-> ChunkName(yr, k - 1),
                data     |-> [ year       |-> yr,
                               chunkId    |-> padStart(NatToString(k - 1), 3),
                               count      |-> Len(chunkProperties),
                               properties |-> Map(compressProperty, chunkProperties) ] ]) ])

\* the chunk files of a year: [filename, data] for chunk ids 0, 1, ...
ChunkFiles(yr, properties, chunkSize) ==
  Let(sort(ByAddress, properties), LAMBDA sorted :
    [ k \in 1..((Len(sorted) + chunkSize - 1) \div chunkSize) |->
        Let(SubSeq(sorted, (k - 1) * chunkSize + 1,
                   IF k * chunkSize < Len(sorted) THEN k * chunkSize ELSE Len(sorted)),
            LAMBDA chunkProperties :
              [ filename |-> ChunkName(yr, k - 1),
                data     |-> [ year       |-> yr,
                               chunkId    |-> padStart(NatToString(k - 1), 3),
                               count      |-> Len(chunkProperties),
                               properties |-> Map(compressProperty, chunkProperties) ] ]) ])

\* the manifest of a year (byte sizes and the creation time are left out)
ManifestOf(yr, properties, chunkSize) ==
  Let(ChunkFiles(yr, properties, chunkSize), LAMBDA files :
    [ year            |-> yr,
      totalProperties |-> Len(properties),
      chunks          |-> [ k \in 1..Len(files) |->
                              [ filename |-> files[k].filename,
                                count    |-> files[k].data.count ] ] ])

\* addressGroups: the sorted records grouped by lowercased address, as the
\* object address -> records
AddressGroups(sorted) ==
  Let([ i \in 1..Len(sorted) |-> toLowerCase(sorted[i].address) ], LAMBDA addr :
    Let(Ascending({ i \in 1..Len(addr) : \A j \in 1..(i - 1) : addr[j] # addr[i] }),
        LAMBDA first :
          ObjectEntries([ j \in 1..Len(first) |->
            [ key |-> addr[first[j]],
              val |-> Let(Ascending({ i \in 1..Len(addr) : addr[i] = addr[first[j]] }),
                          LAMBDA at : [ k \in 1..Len(at) |-> sorted[at[k]] ]) ] ])))

\* a test that lets the group of a single sale through
IsGroup(g) == Len(g.val) > 0

\* addressProps.length > 1, for the entry g of addressGroups
IsRepeat(g) == Len(g.val) > 1

\* the address files of a year in the order they are written: one for each
\* lowercased address with more than one record
AddressFileWrites(yr, properties, chunkSize) ==
  Let(Filter(IsRepeat, AddressGroups(sort(ByAddress, properties))), LAMBDA repeats :
    [ j \in 1..Len(repeats) |->
        [ filename |-> hashAddress(repeats[j].key) \o ".json",
          data     |-> [ address    |-> repeats[j].val[1].address,
                         count      |-> Len(repeats[j].val),
                         properties |-> Map(compressProperty, repeats[j].val) ] ] ])

(***************************************************************************)
(* Files.  A directory tree is a function from relative path to parsed     *)
(* content.                                                                *)
(***************************************************************************)
MasterPath == "master-address-index.json"
ManifestPath(yr) == yr \o "/manifest.json"
ChunkPath(yr, filename) == yr \o "/" \o filename
AddressPath(yr, address) == yr \o "/addresses/" \o hashAddress(address) \o ".json"

NoFiles == [ f \in {} |-> null ]

WriteFile(disk, path, data) ==
  Let2(disk, data, LAMBDA d, v :
    [ f \in DOMAIN d \cup {path} |-> IF f = path THEN v ELSE d[f] ])

\* the files createOptimizedChunks writes, in the order it writes them
YearWrites(yr, properties, chunkSize) ==
  Let(NatToString(yr), LAMBDA y :
    Let(ChunkFiles(yr, properties, chunkSize), LAMBDA chunks :
      Let(AddressFileWrites(yr, properties, chunkSize), LAMBDA addrs :
        [ k \in 1..Len(chunks) |->
            [ path |-> ChunkPath(y, chunks[k].filename), data |-> chunks[k].data ] ]
        \o << [ path |-> ManifestPath(y), data |-> ManifestOf(yr, properties, chunkSize) ] >>
        \o [ j \in 1..Len(addrs) |->
               [ path |-> y \o "/addresses/" \o addrs[j].filename,
                 data |-> addrs[j].data ] ])))

\* the directory after the writes: a later write of a path replaces an
\* earlier one
WriteAll(disk, writes) ==
  Let2(disk, writes, LAMBDA d, w :
    [ f \in DOMAIN d \cup { w[i].path : i \in 1..Len(w) } |->
        IF \E i \in 1..Len(w) : w[i].path = f
        THEN w[CHOOSE i \in 1..Len(w) :
                 w[i].path = f /\ \A j \in (i + 1)..Len(w) : w[j].path # f].data
        ELSE d[f] ])

\* createOptimizedChunks: the chunks, the manifest and then the address
\* files of a year, each address file replacing an earlier one of its name
createOptimizedChunks(disk, yr, properties, chunkSize) ==
  Let(properties, LAMBDA props : WriteAll(disk, YearWrites(yr, props, chunkSize)))

(***************************************************************************)
(* IndexBuilder                                                            *)
(***************************************************************************)
\* the concatenation of the sequences seqs[i..]
RECURSIVE Flatten(_, _)
Flatten(seqs, i) == IF i > Len(seqs) THEN << >> ELSE seqs[i] \o Flatten(seqs, i + 1)

\* the lowercased addresses of the chunks of a year in reading order; none
\* from the first chunk that cannot be read on
ChunkAddresses(disk, y, chunks) ==
  LET IsNamed(a) == a # ""
  IN  Let({ k \in 1..Len(chunks) : ChunkPath(y, chunks[k].filename) \notin DOMAIN disk },
          LAMBDA unread :
            Let([ k \in 1..(IF unread = {} THEN Len(chunks) ELSE Least(unread) - 1) |->
                    Let(disk[ChunkPath(y, chunks[k].filename)].properties, LAMBDA props :
                      Filter(IsNamed,
                             [ i \in 1..Len(props) |-> toLowerCase(Or(props[i]["a"], "")) ])) ],
                LAMBDA perChunk : Flatten(perChunk, 1)))

\* the addresses of a year; none when the manifest cannot be read
YearAddresses(disk, yr) ==
  Let(NatToString(yr), LAMBDA y :
    IF ManifestPath(y) \notin DOMAIN disk THEN << >>
    ELSE ChunkAddresses(disk, y, disk[ManifestPath(y)].chunks))

\* the [addr, year] pairs in the order the index loop meets them
Occurrences(disk, years) ==
  Let([ n \in 1..Len(years) |->
          Let2(YearAddresses(disk, years[n]), NatToString(years[n]), LAMBDA addrs, y :
            [ i \in 1..Len(addrs) |-> [ addr |-> addrs[i], year |-> y ] ]) ],
      LAMBDA perYear : Flatten(perYear, 1))

\* masterIndex[a]: the object year -> count of the occurrences of address a
YearCounts(occ, a) ==
  Let(Ascending({ i \in 1..Len(occ) : occ[i].addr = a }), LAMBDA at :
    Let(Ascending({ i \in Range(at) :
                      \A j \in Range(at) : j < i => occ[j].year # occ[i].year }),
        LAMBDA firstYear :
          ObjectEntries([ k \in 1..Len(firstYear) |->
            [ key |-> occ[firstYear[k]].year,
              val |-> Cardinality({ j \in Range(at) :
                                      occ[j].year = occ[firstYear[k]].year }) ] ])))

\* createOptimizedIndices: the master index counted from the chunks of the
\* processed years, as the object address -> (year -> count)
createOptimizedIndices(disk, years) ==
  Let2(disk, years, LAMBDA d, ys :
    Let(Occurrences(d, ys), LAMBDA occ :
      Let(Ascending({ i \in 1..Len(occ) : \A j \in 1..(i - 1) : occ[j].addr # occ[i].addr }),
          LAMBDA firstAddr :
            ObjectEntries([ k \in 1..Len(firstAddr) |->
              [ key |-> occ[firstAddr[k]].addr,
                val |-> YearCounts(occ, occ[firstAddr[k]].addr) ] ]))))

\* the first group of four digits of a file name (the current year when
\* there is none)
CurrentYear == 2026
extractYear(fileName) ==
  Let(fileName, LAMBDA name :
    Let({ i \in 1..(Len(name) - 3) : DigitRun(name, i) >= 4 }, LAMBDA P :
      IF P = {} THEN CurrentYear
      ELSE DigitsValue(SubSeq(name, Least(P), Least(P) + 3))))

\* a whole batch run over archives[i..], each given as [name, content] with
\* the content of its raw data file
RECURSIVE ProcessArchives(_, _, _, _)
ProcessArchives(disk, archives, i, chunkSize) ==
  IF i > Len(archives) THEN disk
  ELSE Let(extractYear(archives[i].name), LAMBDA yr :
         Let(createOptimizedChunks(disk, yr,
               parseDATContentOptimized(archives[i].content, yr), chunkSize),
             LAMBDA next : ProcessArchives(next, archives, i + 1, chunkSize)))

\* stats.yearsProcessed: the years of the archives in order of first occurrence
YearsProcessed(archives) ==
  Let([ i \in 1..Len(archives) |-> extractYear(archives[i].name) ], LAMBDA yrs :
    Let(Ascending({ i \in 1..Len(yrs) : \A j \in 1..(i - 1) : yrs[j] # yrs[i] }),
        LAMBDA first : [ k \in 1..Len(first) |-> yrs[first[k]] ]))

processDataForGitHub(archives, chunkSize) ==
  Let(archives, LAMBDA a :
    Let(ProcessArchives(NoFiles, a, 1, chunkSize), LAMBDA disk :
      WriteFile(disk, MasterPath, createOptimizedIndices(disk, YearsProcessed(a)))))

(***************************************************************************)
(* The published data the read side is run against                         *)
(***************************************************************************)
\* a sale line in the official format
SaleLine(unit, house, street, locality, settlement, price, nature, purpose) ==
  Join(<< "B", "001", "1667", "1", "20200106 01:00", "", unit, house, street,
          locality, "2325", "1011.83", "M", "20191116", settlement, price, "R2",
          nature, purpose, "", "AAD", "", "0", "AP807655", "" >>, ";")

SampleLine ==
  "B;001;1667;1;20200106 01:00;;;103;RAWSON ST;ABERDARE;2325;1011.83;M;20191116;20191230;260000;R2;R;RESIDENCE;;AAD;;0;AP807655;"

FixtureArchives ==
  << [ name |-> "2018.zip", content |->
         SaleLine("", "5", "High St", "Aberdare", "20180105", "400000", "R", "RESIDENCE") ],
     [ name |-> "2019.zip", content |->
         SaleLine("", "5", "High St", "Aberdare", "20190105", "450000", "R", "RESIDENCE") ],
     [ name |-> "2020.zip", content |-> Join(<<
         "A;RTSALEDATA;001;20200106 01:00;VALNET",
         SaleLine("", "7", "King St", "Wallsend", "20200301", "520000", "R", "RESIDENCE"),
         SampleLine,
         SaleLine("", "7", "King St", "Wallsend", "", "530000", "R", "RESIDENCE"),
         SaleLine("", "5", "High St", "Aberdare", "20200105", "500000", "R", "RESIDENCE"),
         SaleLine("", "7", "King St", "Wallsend", "20200601", "540000", "R", "RESIDENCE") >>, "\n") ],
     [ name |-> "2021.zip", content |-> Join(<<
         SaleLine("", "103", "Rawson St", "Aberdare", "20210301", "300000", "R", "RESIDENCE"),
         SaleLine("", "9", "Zed Ave", "Ballina", "20210410", "700000", "V", ""),
         SaleLine("", "103", "Rawson St", "Aberdare", "20210215", "310000", "R", "RESIDENCE"),
         SaleLine("", "103", "Rawson Rd", "Ballina", "20210505", "600000", "3", "UNIT"),
         SaleLine("", "103", "Rawson St", "Aberdare", "20210601", "320000", "R", "RESIDENCE"),
         "",
         SaleLine("", "5", "High St", "Aberdare", "20210701", "550000", "R", "RESIDENCE"),
         SaleLine("", "77", "Low St", "Aberdare", "20210702", "1000", "R", "RESIDENCE"),
         SaleLine("", "103", "Rawson Rd", "Ballina", "20210801", "650000", "3", "UNIT") >>, "\n") ] >>

\* the configured numbers of records per chunk the data is published with
ChunkSizes == {2, 3}

Published == [ c \in ChunkSizes |-> processDataForGitHub(FixtureArchives, c) ]

(***************************************************************************)
(* The process state                                                       *)
(***************************************************************************)
VARIABLES
  recordsPerChunk,  \* config.recordsPerChunk the data was published with
  cache,            \* this.cache: key -> value
  timers,           \* the pending setTimeout evictions, as [key, at]
  now,              \* the clock, in units of five minutes
  inflight,         \* the https.get requests awaiting their response: path -> number
  storedAt,         \* for each key, when cache.set last stored it (cleared with the cache)
  ret,              \* the last call and what it returned
  input,            \* the line and year handed to the record parser
  parsed,           \* what the record parser returned for it
  disk,             \* config.outputPath: the files of the output directory
  yearsProcessed,   \* stats.yearsProcessed, in insertion order
  batch             \* the batch run: its archives and how far it has come

readVars  == << recordsPerChunk, cache, timers, now, inflight, storedAt, ret >>
parseVars == << input, parsed >>
batchVars == << disk, yearsProcessed, batch >>
vars      == << recordsPerChunk, cache, timers, now, inflight, storedAt, ret, input, parsed,
                disk, yearsProcessed, batch >>

\* lifetimes of the cache classes, in units of five minutes
ArtifactTTL == 3
SearchTTL   == 1
PropertyTTL == 2
PriceTTL    == 1

\* the clock stops at MaxTime in the runs of fetchGitHubFile and at
\* MaxSearchTime in the runs of the searches
MaxTime       == 4
MaxSearchTime == 2
MaxInflight   == 2
MaxLimit      == 3

\* the files the remote host serves
Store == Published[recordsPerChunk]

GithubKey(filepath) == "github_" \o filepath
SearchKey(query)    == "search_" \o toLowerCase(query)
PropertyKey(address) == "property_" \o toLowerCase(address)
PriceKey(f) ==
  "price_" \o NatToString(f.minPrice) \o "_" \o NatToString(f.maxPrice) \o "_"
  \o (IF f.suburb # "" THEN f.suburb ELSE "all") \o "_"
  \o (IF f.year # 0 THEN NatToString(f.year) ELSE "all")

Cached(key) == key \in DOMAIN cache

\* a cache.set that sets no eviction timer
CacheSetUntimed(e) ==
  /\ cache'    = [ k \in DOMAIN cache \cup DOMAIN e |->
                     IF k \in DOMAIN e THEN e[k].value ELSE cache[k] ]
  /\ timers'   = timers
  /\ storedAt' = [ k \in DOMAIN storedAt \cup DOMAIN e |->
                     IF k \in DOMAIN e THEN now ELSE storedAt[k] ]

\* cache.set(key, e[key].value) for each key of e, each followed by
\* setTimeout(() => cache.delete(key), e[key].ttl)
CacheSet(e) ==
  /\ cache'    = [ k \in DOMAIN cache \cup DOMAIN e |->
                     IF k \in DOMAIN e THEN e[k].value ELSE cache[k] ]
  /\ timers'   = timers \cup { [ key |-> k, at |-> now + e[k].ttl ] : k \in DOMAIN e }
  /\ storedAt' = [ k \in DOMAIN storedAt \cup DOMAIN e |->
                     IF k \in DOMAIN e THEN now ELSE storedAt[k] ]

\* the age of the entry last stored under key, -1 when none was stored
Age(key) == IF key \in DOMAIN storedAt THEN now - storedAt[key] ELSE -1

(***************************************************************************)
(* fetchGitHubFile                                                         *)
(***************************************************************************)
\* the file names fetchGitHubFile is called with directly
FetchNames == { MasterPath, "2021/manifest.json", "2017/manifest.json" }

InflightCount == LET S == DOMAIN inflight
                     RECURSIVE Sum(_)
                     Sum(T) == IF T = {} THEN 0
                               ELSE LET f == CHOOSE f \in T : TRUE
                                    IN  inflight[f] + Sum(T \ {f})
                 IN  Sum(S)

\* the call up to the request: a cached value is returned at once,
\* otherwise the request is sent
FetchCall(filepath) ==
  /\ IF Cached(GithubKey(filepath))
     THEN /\ ret' = [ op |-> "fetchGitHubFile", filepath |-> filepath, remote |-> FALSE,
                      age |-> Age(GithubKey(filepath)), outcome |-> "cached",
                      threw |-> FALSE, value |-> cache[GithubKey(filepath)] ]
          /\ UNCHANGED inflight
     ELSE /\ InflightCount < MaxInflight
          /\ inflight' = [ f \in DOMAIN inflight \cup {filepath} |->
                             IF f = filepath
                             THEN (IF f \in DOMAIN inflight THEN inflight[f] ELSE 0) + 1
                             ELSE inflight[f] ]
          /\ ret' = [ op |-> "https.get", filepath |-> filepath, remote |-> TRUE,
                      age |-> Age(GithubKey(filepath)) ]
  /\ UNCHANGED << recordsPerChunk, cache, timers, now, storedAt, parseVars, batchVars >>

\* what a request for a file can come back with
Outcomes(filepath) ==
  IF filepath \in DOMAIN Store THEN { "ok", "error", "non200", "unparseable" }
  ELSE { "error", "non200", "unparseable" }

\* a response handler that stores the body before it is known to parse
ResolutionStoringFirst(filepath, outcome) ==
  IF outcome = "ok"
  THEN [ value |-> Store[filepath], threw |-> FALSE, cached |-> TRUE ]
  ELSE [ value |-> null, threw |-> FALSE, cached |-> outcome = "unparseable" ]

\* what a response resolves the promise with, and whether it is cached:
\* only a 200 response with a JSON body is
Resolution(filepath, outcome) ==
  IF outcome = "ok"
  THEN [ value |-> Store[filepath], threw |-> FALSE, cached |-> TRUE ]
  ELSE [ value |-> null, threw |-> FALSE, cached |-> FALSE ]

\* the response callbacks
FetchResponse(filepath, outcome) ==
  /\ filepath \in DOMAIN inflight
  /\ outcome \in Outcomes(filepath)
  /\ inflight' = IF inflight[filepath] = 1
                 THEN [ f \in DOMAIN inflight \ {filepath} |-> inflight[f] ]
                 ELSE [ inflight EXCEPT ![filepath] = @ - 1 ]
  /\ LET r == Resolution(filepath, outcome)
     IN  /\ ret' = [ op |-> "fetchGitHubFile", filepath |-> filepath, remote |-> TRUE,
                     age |-> -1, outcome |-> outcome, threw |-> r.threw,
                     value |-> r.value ]
         /\ IF r.cached
            THEN CacheSet(GithubKey(filepath) :> [ value |-> r.value, ttl |-> ArtifactTTL ])
            ELSE UNCHANGED << cache, timers, storedAt >>
  /\ UNCHANGED << recordsPerChunk, now, parseVars, batchVars >>

(***************************************************************************)
(* The searches.  Inside one search every fetchGitHubFile call is taken    *)
(* with its response: files gives the content a path resolves to (from the *)
(* cache or from the host, which hold the same immutable content), ok is   *)
(* the set of paths that resolve at all, and got collects the paths that   *)
(* were fetched, which are the ones the call leaves cached.                *)
(***************************************************************************)
\* a record filter that lets every record of the file through
SameAddressAny(p, address) == TRUE

\* p => (p.a || p.address || '').toLowerCase() === address.toLowerCase()
SameAddress(p, address) == toLowerCase(Or(p["a"], "")) = toLowerCase(address)

\* the first chunk among chunks[i..] that has records of the address
RECURSIVE ScanChunks(_, _, _, _, _, _)
ScanChunks(files, year, chunks, i, address, ok) ==
  IF i > Len(chunks) THEN [ out |-> << >>, got |-> {} ]
  ELSE LET path == ChunkPath(year, chunks[i].filename)
           Same(p) == SameAddress(p, address)
       IN  IF path \notin ok THEN ScanChunks(files, year, chunks, i + 1, address, ok)
           ELSE Let(Filter(Same, files[path].properties),
                    LAMBDA matches :
                      IF Len(matches) > 0
                      THEN [ out |-> Map(decompressProperty, matches), got |-> { path } ]
                      ELSE Let(ScanChunks(files, year, chunks, i + 1, address, ok),
                               LAMBDA rest : [ out |-> rest.out, got |-> rest.got \cup { path } ]))

AddressScanChunks == 3

loadPropertiesForAddressYear(files, address, year, ok) ==
  LET addressFile == AddressPath(year, address)
      Same(p) == SameAddress(p, address)
  IN  IF addressFile \in ok
      THEN [ out |-> Map(decompressProperty, Filter(Same, files[addressFile].properties)),
             got |-> { addressFile } ]
      ELSE IF ManifestPath(year) \notin ok THEN [ out |-> << >>, got |-> {} ]
      ELSE Let(ScanChunks(files, year,
                          slice(files[ManifestPath(year)].chunks, AddressScanChunks),
                          1, address, ok),
               LAMBDA scan : [ out |-> scan.out, got |-> scan.got \cup { ManifestPath(year) } ])

\* new Date(s).getTime() up to a monotone rescaling: NaN unless s is YYYY-MM-DD
DateValue(s) ==
  IF /\ Len(s) = 10
     /\ DigitRun(s, 1) = 4 /\ Char(s, 5) = "-"
     /\ DigitRun(s, 6) = 2 /\ Char(s, 8) = "-"
     /\ DigitRun(s, 9) = 2
     /\ DigitsValue(SubSeq(s, 6, 7)) \in 1..12
     /\ DigitsValue(SubSeq(s, 9, 10)) \in 1..31
  THEN DigitsValue(SubSeq(s, 1, 4)) * 372 + (DigitsValue(SubSeq(s, 6, 7)) - 1) * 31
       + DigitsValue(SubSeq(s, 9, 10))
  ELSE NaN

\* (a, b) => new Date(b.saleDate) - new Date(a.saleDate)
ByDateDesc(a, b) ==
  Let(<< DateValue(a.saleDate), DateValue(b.saleDate) >>,
      LAMBDA d : IF d[1] = NaN \/ d[2] = NaN THEN NaN ELSE d[2] - d[1])

MaxAddresses == 20
YearsPerAddress == 3

\* the years of one address the search examines
ExaminedYears(masterIndex, address) ==
  slice(ObjectKeys(Get(masterIndex, address)), YearsPerAddress)

\* the loop over the years of one address from years[i] on; acc is
\* [results, got, examined]
RECURSIVE GatherYears(_, _, _, _, _, _, _)
GatherYears(files, address, years, i, limit, ok, acc) ==
  IF i > Len(years) THEN acc
  ELSE Let(loadPropertiesForAddressYear(files, address, years[i], ok),
           LAMBDA properties :
             Let([ results  |-> acc.results \o properties.out,
                   got      |-> acc.got \cup properties.got,
                   examined |-> Append(acc.examined,
                                       [ address |-> address, year |-> years[i] ]) ],
                 LAMBDA next :
                   IF Len(next.results) >= limit * 2 THEN next
                   ELSE GatherYears(files, address, years, i + 1, limit, ok, next)))

\* the loop over the matching addresses from addresses[i] on
RECURSIVE GatherAddresses(_, _, _, _, _, _, _)
GatherAddresses(files, masterIndex, addresses, i, limit, ok, acc) ==
  IF i > Len(addresses) THEN acc
  ELSE Let(GatherYears(files, addresses[i], ExaminedYears(masterIndex, addresses[i]),
                       1, limit, ok, acc),
           LAMBDA next :
             IF Len(next.results) >= limit * 2 THEN next
             ELSE GatherAddresses(files, masterIndex, addresses, i + 1, limit, ok, next))

\* the try block of searchAddressFromGitHub after a cache miss; stored says
\* whether the result is put in the cache, threw whether the block ends in
\* a throw (it does when the master index is missing: throw new Error)
\* a candidate filter that lets every address of the index through
MatchesAny(addr, searchTerm) == TRUE

\* addr => addr.includes(searchTerm)
MatchesQuery(addr, searchTerm) == includes(addr, searchTerm)

searchAddressFromGitHub(files, query, limit, ok) ==
  IF MasterPath \notin ok
  THEN [ out |-> << >>, got |-> {}, examined |-> << >>, stored |-> FALSE, threw |-> TRUE ]
  ELSE LET masterIndex == files[MasterPath]
           searchTerm  == toLowerCase(query)
           Matching(addr) == MatchesQuery(addr, searchTerm)
       IN  Let(slice(Filter(Matching, ObjectKeys(masterIndex)), MaxAddresses),
               LAMBDA matchingAddresses :
                 Let(GatherAddresses(files, masterIndex, matchingAddresses, 1, limit, ok,
                       [ results |-> << >>, got |-> { MasterPath }, examined |-> << >> ]),
                     LAMBDA acc :
                       [ out      |-> slice(sort(ByDateDesc, acc.results), limit),
                         got      |-> acc.got,
                         examined |-> acc.examined,
                         stored   |-> TRUE,
                         threw    |-> FALSE ]))

\* the loop of getPropertyFromGitHub over every year of the address
RECURSIVE LoadYears(_, _, _, _, _, _)
LoadYears(files, address, years, i, ok, acc) ==
  IF i > Len(years) THEN acc
  ELSE Let(loadPropertiesForAddressYear(files, address, years[i], ok),
           LAMBDA properties :
             Let([ out |-> acc.out \o properties.out, got |-> acc.got \cup properties.got ],
                 LAMBDA next : LoadYears(files, address, years, i + 1, ok, next)))

\* the try block of getPropertyFromGitHub: masterIndex[normalizedAddress]
\* throws a TypeError when the master index is null
getPropertyFromGitHub(files, address, ok) ==
  LET normalizedAddress == toLowerCase(address)
  IN  IF MasterPath \notin ok
      THEN [ out |-> << >>, got |-> {}, stored |-> FALSE, threw |-> TRUE ]
      ELSE IF ~HasKey(files[MasterPath], normalizedAddress)
      THEN [ out |-> << >>, got |-> { MasterPath }, stored |-> FALSE, threw |-> FALSE ]
      ELSE Let(LoadYears(files, normalizedAddress,
                         ObjectKeys(Get(files[MasterPath], normalizedAddress)), 1, ok,
                         [ out |-> << >>, got |-> { MasterPath } ]),
               LAMBDA r : [ out |-> r.out, got |-> r.got, stored |-> TRUE, threw |-> FALSE ])

\* (a, b) => b - a
Descending(a, b) == b - a

\* the elements of a sequence in order of first occurrence, as a Set keeps them
Distinct(s) ==
  LET first == { i \in 1..Len(s) : \A j \in 1..(i - 1) : s[j] # s[i] }
  IN  [ k \in 1..Cardinality(first) |-> s[Ascending(first)[k]] ]

RECURSIVE AllYears(_, _)
AllYears(masterIndex, i) ==
  IF i > Len(masterIndex) THEN << >>
  ELSE Map(parseInt, ObjectKeys(masterIndex[i].val)) \o AllYears(masterIndex, i + 1)

getAvailableYearsFromGitHub(files, ok) ==
  IF MasterPath \notin ok THEN [ out |-> << >>, got |-> {}, threw |-> FALSE ]
  ELSE [ out |-> sort(Descending, Distinct(AllYears(files[MasterPath], 1))),
         got |-> { MasterPath }, threw |-> FALSE ]

PriceScanChunks == 5
YearsPerPriceSearch == 3

\* the filter of searchYearByPrice on one record of a chunk
PriceMatch(p, f) ==
  /\ OrZero(p["$"]) >= f.minPrice * Scale
  /\ OrZero(p["$"]) <= f.maxPrice * Scale
  /\ (f.suburb # "" => includes(toLowerCase(Or(p["s"], "")), toLowerCase(f.suburb)))

\* the loop of searchYearByPrice over the chunks of a year from chunks[i] on
RECURSIVE ScanPrices(_, _, _, _, _, _, _, _)
ScanPrices(files, year, chunks, i, f, limit, ok, acc) ==
  IF i > Len(chunks) THEN acc
  ELSE LET path == ChunkPath(year, chunks[i].filename)
           Match(p) == PriceMatch(p, f)
       IN  IF path \notin ok THEN ScanPrices(files, year, chunks, i + 1, f, limit, ok, acc)
           ELSE Let([ out |-> acc.out \o Map(decompressProperty,
                                            Filter(Match, files[path].properties)),
                      got |-> acc.got \cup { path } ],
                    LAMBDA next :
                      IF Len(next.out) >= limit THEN next
                      ELSE ScanPrices(files, year, chunks, i + 1, f, limit, ok, next))

searchYearByPrice(files, year, f, limit, ok) ==
  IF ManifestPath(year) \notin ok THEN [ out |-> << >>, got |-> {} ]
  ELSE ScanPrices(files, year, slice(files[ManifestPath(year)].chunks, PriceScanChunks),
                  1, f, limit, ok, [ out |-> << >>, got |-> { ManifestPath(year) } ])

\* the loop of searchPriceFromGitHub over the years from years[i] on
RECURSIVE GatherPrices(_, _, _, _, _, _, _)
GatherPrices(files, years, i, f, limit, ok, acc) ==
  IF i > Len(years) THEN acc
  ELSE Let(searchYearByPrice(files, years[i], f, limit * 2, ok),
           LAMBDA yearResults :
             Let([ out |-> acc.out \o yearResults.out,
                   got |-> acc.got \cup yearResults.got ],
                 LAMBDA next :
                   IF Len(next.out) >= limit * 2 THEN next
                   ELSE GatherPrices(files, years, i + 1, f, limit, ok, next)))

\* (a, b) => b.salePrice - a.salePrice
ByPriceDesc(a, b) == b.salePrice - a.salePrice

\* the body of searchPriceFromGitHub after a cache miss; f is the filter
\* [minPrice, maxPrice, suburb, year], an absent suburb being "" and an
\* absent year 0 (both are falsy, as undefined and null are)
searchPriceFromGitHub(files, f, limit, ok) ==
  Let(getAvailableYearsFromGitHub(files, ok),
      LAMBDA available :
        Let(GatherPrices(files,
              slice(IF f.year # 0 THEN << NatToString(f.year) >>
                    ELSE Map(NatToString, available.out), YearsPerPriceSearch),
              1, f, limit, ok,
              [ out |-> << >>, got |-> IF f.year # 0 THEN {} ELSE available.got ]),
            LAMBDA acc :
              [ out |-> slice(sort(ByPriceDesc, acc.out), limit), got |-> acc.got,
                stored |-> TRUE, threw |-> FALSE ]))

(***************************************************************************)
(* The calls of the read side                                              *)
(***************************************************************************)
\* the inputs of the searches
Queries    == { "king", "High", "RAWSON" }
Addresses  == { "9 Zed Ave", "103 RAWSON RD", "5 high st", "1 Nowhere Pl" }
PriceFilters ==
  { [ minPrice |-> 200000, maxPrice |-> 600000, suburb |-> sub, year |-> 0 ] :
      sub \in { "", "all", "aber" } }
  \cup { [ minPrice |-> 200000, maxPrice |-> 600000, suburb |-> "", year |-> 2020 ] }
Limits     == { 1, MaxLimit }

\* the sets of files whose fetch may fail during one call
OutageFiles == { MasterPath, ManifestPath("2020"), AddressPath("2020", "7 king st") }
Outages == { {} } \cup { { f } : f \in OutageFiles }

\* the searches are functions of the published files, the arguments and the
\* set of failing fetches; they are tabulated once
AddressSearches ==
  [ c \in ChunkSizes |-> [ q \in Queries |-> [ l \in Limits |-> [ d \in Outages |->
      searchAddressFromGitHub(Published[c], q, l, DOMAIN Published[c] \ d) ] ] ] ]

PropertyLookups ==
  [ c \in ChunkSizes |-> [ a \in Addresses |-> [ d \in Outages |->
      getPropertyFromGitHub(Published[c], a, DOMAIN Published[c] \ d) ] ] ]

PriceSearches ==
  [ c \in ChunkSizes |-> [ f \in PriceFilters |-> [ l \in Limits |-> [ d \in Outages |->
      searchPriceFromGitHub(Published[c], f, l, DOMAIN Published[c] \ d) ] ] ] ]

\* the fetches of down that fail in the current state: a cached file does
\* not reach the host
Failing(down) == { f \in down : ~Cached(GithubKey(f)) }

\* the cache entries a search leaves for the files it fetched
Fetched(got) ==
  LET new == { f \in got : ~Cached(GithubKey(f)) }
  IN  [ k \in { GithubKey(f) : f \in new } |->
          [ value |-> Store[CHOOSE f \in new : GithubKey(f) = k], ttl |-> ArtifactTTL ] ]

\* a call without a catch clause: what the try block throws reaches the caller
Uncaught(r) == r

\* the catch clause of a call: console.error and return []
Caught(r) == IF r.threw THEN [ r EXCEPT !.threw = FALSE, !.out = << >> ] ELSE r

YearsTable ==
  [ c \in ChunkSizes |-> [ d \in Outages |->
      getAvailableYearsFromGitHub(Published[c], DOMAIN Published[c] \ d) ] ]

\* a cache hit that returns the entry as it was stored
ServeWhole(entry, limit) == entry

\* this.cache.get(cacheKey).slice(0, limit)
ServeCached(entry, limit) == slice(entry, limit)

SearchAddress(query, limit, down) ==
  \E cacheKey \in { SearchKey(query) } :
    /\ IF Cached(cacheKey)
       THEN /\ down = {}
            /\ ret' = [ op |-> "searchAddressFromGitHub", query |-> query, limit |-> limit,
                        hit |-> TRUE, threw |-> FALSE, examined |-> << >>,
                        age |-> Age(cacheKey),
                        value |-> ServeCached(cache[cacheKey], limit) ]
            /\ UNCHANGED << cache, timers, storedAt >>
       ELSE /\ down = Failing(down)
            /\ \E r \in { Caught(AddressSearches[recordsPerChunk][query][limit][down]) } :
                   /\ CacheSet(IF r.stored
                               THEN Fetched(r.got)
                                    @@ (cacheKey :> [ value |-> r.out, ttl |-> SearchTTL ])
                               ELSE Fetched(r.got))
                   /\ ret' = [ op |-> "searchAddressFromGitHub", query |-> query,
                               limit |-> limit, hit |-> FALSE, threw |-> r.threw,
                               examined |-> r.examined, age |-> Age(cacheKey),
                               value |-> r.out ]
    /\ UNCHANGED << recordsPerChunk, now, inflight, parseVars, batchVars >>

GetProperty(address, down) ==
  \E cacheKey \in { PropertyKey(address) } :
    /\ IF Cached(cacheKey)
       THEN /\ down = {}
            /\ ret' = [ op |-> "getPropertyFromGitHub", address |-> address,
                        hit |-> TRUE, stored |-> TRUE, threw |-> FALSE, failed |-> {},
                        age |-> Age(cacheKey), value |-> cache[cacheKey] ]
            /\ UNCHANGED << cache, timers, storedAt >>
       ELSE /\ down = Failing(down)
            /\ \E r \in { Caught(PropertyLookups[recordsPerChunk][address][down]) } :
                   /\ CacheSet(IF r.stored
                               THEN Fetched(r.got)
                                    @@ (cacheKey :> [ value |-> r.out, ttl |-> PropertyTTL ])
                               ELSE Fetched(r.got))
                   /\ ret' = [ op |-> "getPropertyFromGitHub", address |-> address,
                               hit |-> FALSE, stored |-> r.stored, threw |-> r.threw,
                               failed |-> down, age |-> Age(cacheKey), value |-> r.out ]
    /\ UNCHANGED << recordsPerChunk, now, inflight, parseVars, batchVars >>

SearchPrice(f, limit, down) ==
  \E cacheKey \in { PriceKey(f) } :
    /\ IF Cached(cacheKey)
       THEN /\ down = {}
            /\ ret' = [ op |-> "searchPriceFromGitHub", filter |-> f, limit |-> limit,
                        hit |-> TRUE, threw |-> FALSE, age |-> Age(cacheKey),
                        value |-> ServeCached(cache[cacheKey], limit) ]
            /\ UNCHANGED << cache, timers, storedAt >>
       ELSE /\ down = Failing(down)
            /\ \E r \in { Caught(PriceSearches[recordsPerChunk][f][limit][down]) } :
                   /\ CacheSet(Fetched(r.got)
                               @@ (cacheKey :> [ value |-> r.out, ttl |-> PriceTTL ]))
                   /\ ret' = [ op |-> "searchPriceFromGitHub", filter |-> f, limit |-> limit,
                               hit |-> FALSE, threw |-> r.threw, age |-> Age(cacheKey),
                               value |-> r.out ]
    /\ UNCHANGED << recordsPerChunk, now, inflight, parseVars, batchVars >>

\* GET /api/years: getAvailableYearsFromGitHub, which keeps no entry of its
\* own in the cache
ListYears(down) ==
  /\ down = Failing(down)
  /\ \E r \in { Caught(YearsTable[recordsPerChunk][down]) } :
         /\ CacheSet(Fetched(r.got))
         /\ ret' = [ op |-> "getAvailableYearsFromGitHub", hit |-> FALSE,
                     threw |-> r.threw, failed |-> down, value |-> r.out ]
  /\ UNCHANGED << recordsPerChunk, now, inflight, parseVars, batchVars >>

(***************************************************************************)
(* Time, eviction timers, POST /api/cache/clear                            *)
(***************************************************************************)
\* the clock advances by one unit and the timers that are due then run,
\* each deleting its key
Tick(bound) ==
  /\ now < bound
  /\ now' = now + 1
  /\ LET due == { t \in timers : t.at <= now + 1 }
     IN  /\ timers' = timers \ due
         /\ cache' = [ k \in DOMAIN cache \ { t.key : t \in due } |-> cache[k] ]
  /\ UNCHANGED << recordsPerChunk, inflight, storedAt, ret, parseVars, batchVars >>

ClearCache ==
  /\ cache # << >>
  /\ cache' = << >>
  /\ storedAt' = << >>
  /\ ret' = [ op |-> "cache.clear" ]
  /\ UNCHANGED << recordsPerChunk, timers, now, inflight, parseVars, batchVars >>


(***************************************************************************)
(* parsePropertyLine on one line                                           *)
(***************************************************************************)
Parse ==
  /\ ~parsed.done
  /\ parsed' = [ done |-> TRUE, value |-> parsePropertyLine(input.line, input.year) ]
  /\ UNCHANGED << readVars, input, batchVars >>

(***************************************************************************)
(* ArchiveScanner.  An opened archive is the sequence of its entries; an   *)
(* entry has its name, whether it is a directory, and, when its data are   *)
(* an archive that opens, the entries of that archive.                     *)
(***************************************************************************)
\* String.prototype.endsWith
endsWith(s, suffix) ==
  Let2(s, suffix, LAMBDA sv, suf :
    Len(sv) >= Len(suf) /\ SubSeq(sv, Len(sv) - Len(suf) + 1, Len(sv)) = suf)

\* a scan that gives up the rest of an archive at a nested archive that
\* does not open
RECURSIVE ScanUntilFailure(_, _)
ScanUntilFailure(zip, i) ==
  IF i > Len(zip) THEN << >>
  ELSE Let(toLowerCase(zip[i].entryName), LAMBDA entryName :
         IF ~zip[i].isDirectory /\ endsWith(entryName, ".zip") /\ ~zip[i].opens
         THEN << >>
         ELSE (IF ~zip[i].isDirectory /\ endsWith(entryName, ".dat")
               THEN << zip[i] >> ELSE << >>)
              \o (IF ~zip[i].isDirectory /\ endsWith(entryName, ".zip")
                  THEN ScanUntilFailure(zip[i].entries, 1) ELSE << >>)
              \o ScanUntilFailure(zip, i + 1))

\* entries.forEach of findDATFilesRecursively from entry i on: a raw data
\* file is pushed, a nested archive is opened and scanned, and one that
\* does not open is passed over in the catch clause
RECURSIVE ScanEntries(_, _)
ScanEntries(zip, i) ==
  IF i > Len(zip) THEN << >>
  ELSE Let(toLowerCase(zip[i].entryName), LAMBDA entryName :
         (IF ~zip[i].isDirectory /\ endsWith(entryName, ".dat")
          THEN << zip[i] >> ELSE << >>)
         \o (IF ~zip[i].isDirectory /\ endsWith(entryName, ".zip") /\ zip[i].opens
             THEN ScanEntries(zip[i].entries, 1) ELSE << >>)
         \o ScanEntries(zip, i + 1))

findDATFilesRecursively(zip) == Let(zip, LAMBDA z : ScanEntries(z, 1))

\* the scan of the archive in input
Scan ==
  /\ ~parsed.done
  /\ parsed' = [ done |-> TRUE, value |-> findDATFilesRecursively(input.zip) ]
  /\ UNCHANGED << readVars, input, batchVars >>

(***************************************************************************)
(* The batch run, one archive at a time.  batch holds the archives of the  *)
(* data directory, each with the records its raw data files parse to, the  *)
(* position of the loop over them, the number of the run (the time it is   *)
(* made at), the archives whose processing failed in this run, the files   *)
(* the index step could not read, the number of injected failures,         *)
(* stats.totalProperties, and the paths written in this run, in order.     *)
(***************************************************************************)
\* no batch run has been made: the output directory is empty
NoBatch ==
  /\ disk = NoFiles
  /\ yearsProcessed = << >>
  /\ batch = [ phase |-> "none" ]

\* the runs of one output directory and the I/O failures injected in them
MaxRuns     == 2
MaxFailures == 1

\* a write that stamps every file with the creation time
StampedEvery(w, t) == [ path |-> w.path, data |-> [ created |-> t ] @@ w.data ]

\* a write as it reaches the disk: the manifest carries
\* created: new Date().toISOString(), the other files carry no time
Stamped(w, t) ==
  IF "totalProperties" \in DOMAIN w.data
  THEN [ path |-> w.path, data |-> [ created |-> t ] @@ w.data ]
  ELSE w

\* stats.yearsProcessed.add(year)
AddYear(years, yr) == IF yr \in Range(years) THEN years ELSE Append(years, yr)

\* a year that is added to the set before its files are written
YearsAfterAnyway(years, yr, fail) == AddYear(years, yr)

\* stats.yearsProcessed after an archive of the year yr: the year is added
\* after createOptimizedChunks has returned, not when a write has thrown
YearsAfter(years, yr, fail) == IF fail = 0 THEN AddYear(years, yr) ELSE years

\* processYearlyZipOptimized on the next archive; the fail-th write of
\* createOptimizedChunks throws (none when fail = 0), which ends the
\* processing of this archive in the catch clause
ProcessArchive ==
  /\ batch.phase = "archives"
  /\ batch.at <= Len(batch.archives)
  /\ \E a \in { batch.archives[batch.at] } :
     \E yr \in { extractYear(a.name) } :
     \E writes \in { YearWrites(yr, a.records, recordsPerChunk) } :
     \E fail \in 0..(IF batch.failures < batch.cap THEN Len(writes) ELSE 0) :
       /\ disk' = WriteAll(disk,
                    [ k \in 1..(IF fail = 0 THEN Len(writes) ELSE fail - 1) |->
                        Stamped(writes[k], batch.run) ])
       /\ yearsProcessed' = YearsAfter(yearsProcessed, yr, fail)
       /\ batch' = [ batch EXCEPT
                       !.at = @ + 1,
                       !.failed = IF fail = 0 THEN @
                                  ELSE @ \cup { [ archive |-> batch.at, write |-> fail ] },
                       !.failures = IF fail = 0 THEN @ ELSE @ + 1,
                       !.totalProperties = IF fail = 0 THEN @ + Len(a.records) ELSE @,
                       !.log = @ \o [ k \in 1..(IF fail = 0 THEN Len(writes) ELSE fail - 1) |->
                                        writes[k].path ],
                       !.last = [ archive |-> batch.at, year |-> yr, fail |-> fail,
                                  chunks |-> Cardinality({ k \in 1..Len(writes) :
                                               "chunkId" \in DOMAIN writes[k].data }) ] ]
  /\ UNCHANGED << readVars, parseVars >>

\* the output directory as createOptimizedIndices can read it
Readable(files, unreadable) == [ f \in DOMAIN files \ unreadable |-> files[f] ]

\* createOptimizedIndices after the loop over the archives; reading the
\* files of unreadable throws
BuildIndex(unreadable) ==
  /\ batch.phase = "archives"
  /\ batch.at > Len(batch.archives)
  /\ unreadable # {} => batch.failures < batch.cap
  /\ disk' = WriteFile(disk, MasterPath,
                       createOptimizedIndices(Readable(disk, unreadable), yearsProcessed))
  /\ batch' = [ batch EXCEPT
                  !.phase = "done",
                  !.log = Append(@, MasterPath),
                  !.unread = unreadable,
                  !.failures = IF unreadable = {} THEN @ ELSE @ + 1 ]
  /\ UNCHANGED << readVars, parseVars, yearsProcessed >>

\* the program is run again on the same data and output directories
Rerun ==
  /\ batch.phase = "done"
  /\ batch.run < MaxRuns
  /\ yearsProcessed' = << >>
  /\ batch' = [ batch EXCEPT !.phase = "archives", !.at = 1, !.run = @ + 1,
                             !.failed = {}, !.unread = {},
                             !.totalProperties = 0, !.log = << >>,
                             !.last = [ archive |-> 0, year |-> 0, fail |-> 0, chunks |-> 0 ] ]
  /\ UNCHANGED << readVars, parseVars, disk >>

\* a batch run about to start on the given archives
StartOf(archives, cap) ==
  [ phase |-> "archives", archives |-> archives, at |-> 1, run |-> 1, failed |-> {},
    unread |-> {}, failures |-> 0, cap |-> cap, totalProperties |-> 0, log |-> << >>,
    last |-> [ archive |-> 0, year |-> 0, fail |-> 0, chunks |-> 0 ] ]

(***************************************************************************)
(* Specifications                                                          *)
(***************************************************************************)
InitRead ==
  /\ recordsPerChunk \in ChunkSizes
  /\ cache = << >>
  /\ timers = {}
  /\ now = 0
  /\ inflight = << >>
  /\ storedAt = << >>
  /\ ret = [ op |-> "none" ]
  /\ input = [ fields |-> << >>, line |-> "", year |-> 0 ]
  /\ parsed = [ done |-> FALSE ]
  /\ NoBatch

\* fetchGitHubFile called directly, calls overlapping
NextFetch ==
  \/ \E f \in FetchNames : FetchCall(f)
  \/ \E f \in FetchNames, o \in { "ok", "error", "non200", "unparseable" } : FetchResponse(f, o)
  \/ Tick(MaxTime)
  \/ ClearCache

SpecFetch == InitRead /\ [][NextFetch]_vars

\* GET /api/search/address
NextAddress ==
  \/ \E q \in Queries, l \in Limits, d \in Outages : SearchAddress(q, l, d)
  \/ Tick(MaxSearchTime)

SpecAddress == InitRead /\ [][NextAddress]_vars

\* GET /api/property/:address
NextProperty ==
  \/ \E a \in Addresses, d \in Outages : GetProperty(a, d)
  \/ Tick(MaxSearchTime)

SpecProperty == InitRead /\ [][NextProperty]_vars

\* both searches, on the inputs LimitQueries and LimitFilters
LimitQueries == { "king" }
LimitFilters == { f \in PriceFilters : f.suburb = "" }

NextSearch ==
  \/ \E q \in LimitQueries, l \in Limits : SearchAddress(q, l, {})
  \/ \E f \in LimitFilters, l \in Limits : SearchPrice(f, l, {})
  \/ Tick(MaxSearchTime)

SpecSearch == InitRead /\ [][NextSearch]_vars

\* GET /api/search/price
NextPrice ==
  \/ \E f \in PriceFilters, l \in Limits : SearchPrice(f, l, {})
  \/ Tick(MaxSearchTime)

SpecPrice == InitRead /\ [][NextPrice]_vars

\* the four calls of the read side while fetches fail
OutageQueries   == { "king" }
OutageAddresses == { "5 high st", "1 Nowhere Pl" }
OutageFilters   == { f \in PriceFilters : f.suburb = "" }

NextCalls ==
  \/ \E q \in OutageQueries, d \in Outages : SearchAddress(q, MaxLimit, d)
  \/ \E a \in OutageAddresses, d \in Outages : GetProperty(a, d)
  \/ \E f \in OutageFilters, d \in Outages : SearchPrice(f, MaxLimit, d)
  \/ \E d \in Outages : ListYears(d)

SpecCalls == InitRead /\ [][NextCalls]_vars

\* the four classes of cache entries over more than the longest lifetime
LifetimeFiles     == { "2021/manifest.json" }
LifetimeQueries   == { "king" }
LifetimeAddresses == { "9 Zed Ave" }
LifetimeFilters   == { f \in PriceFilters : f.year = 2020 }

NextLifetime ==
  \/ \E f \in LifetimeFiles : FetchCall(f)
  \/ \E f \in LifetimeFiles : FetchResponse(f, "ok")
  \/ \E q \in LifetimeQueries : SearchAddress(q, MaxLimit, {})
  \/ \E a \in LifetimeAddresses : GetProperty(a, {})
  \/ \E f \in LifetimeFilters : SearchPrice(f, MaxLimit, {})
  \/ Tick(MaxTime)

SpecLifetime == InitRead /\ [][NextLifetime]_vars

\* loadPropertiesForAddressYear on an address and a year of the master
\* index, while the address file arrives or does not
Load ==
  /\ ~parsed.done
  /\ parsed' = [ done |-> TRUE,
                 value |-> loadPropertiesForAddressYear(Store, input.address, input.year,
                                                        DOMAIN Store \ input.down) ]
  /\ UNCHANGED << readVars, input, batchVars >>

\* the years the master index lists
IndexedYears(masterIndex) ==
  UNION { Range(ObjectKeys(Get(masterIndex, a))) : a \in Range(ObjectKeys(masterIndex)) }

InitLoad ==
  /\ recordsPerChunk \in ChunkSizes
  /\ cache = << >>
  /\ timers = {}
  /\ now = 0
  /\ inflight = << >>
  /\ storedAt = << >>
  /\ ret = [ op |-> "none" ]
  /\ \E address \in Range(ObjectKeys(Store[MasterPath])),
        year \in IndexedYears(Store[MasterPath]), fails \in BOOLEAN :
       input = [ address |-> address, year |-> year,
                 down |-> IF fails THEN { AddressPath(year, address) } ELSE {} ]
  /\ parsed = [ done |-> FALSE ]
  /\ NoBatch

SpecLoad == InitLoad /\ [][Load]_vars

\* the first n fields of a sale line of 25 fields
SaleFields(n, unit, house, street, locality, price) ==
  SubSeq(<< "B", "001", "1667", "1", "20200106 01:00", "", unit, house, street,
            locality, "2325", "1011.83", "M", "20191116", "20191230", price, "R2",
            "R", "RESIDENCE", "", "AAD", "", "0", "AP807655", "" >>, 1, n)

FieldCounts == { 19, 20, 25 }
PriceTexts  == { "", "x", "-5", "999.9", "1000", "1000.5", "1001", "260000",
                 "49999999.9", "50000000" }

\* the lines parsePropertyLine is tried on: the fields of a sale line with
\* the ones the validation reads varied
InputFields ==
  { SaleFields(n, unit, house, street, locality, price) :
      n \in FieldCounts, unit \in { "", "2" }, house \in { "", " ", "103" },
      street \in { "", "Rawson St" }, locality \in { "", "Aberdare" },
      price \in PriceTexts }

InitParse ==
  /\ recordsPerChunk \in ChunkSizes
  /\ cache = << >>
  /\ timers = {}
  /\ now = 0
  /\ inflight = << >>
  /\ storedAt = << >>
  /\ ret = [ op |-> "none" ]
  /\ \E f \in InputFields : input = [ fields |-> f, line |-> Join(f, ";"), year |-> 2020 ]
  /\ parsed = [ done |-> FALSE ]
  /\ NoBatch

SpecParse == InitParse /\ [][Parse]_vars

\* the sale line with the nature and the primary purpose set
TypedFields(nature, purpose) ==
  [ SaleFields(25, "", "103", "Rawson St", "Aberdare", "260000")
      EXCEPT ![18] = nature, ![19] = purpose ]

Natures  == { "V", "R", "3", "", "v", "33" }
Purposes == { "", "RESIDENCE", "UNIT", "TOWNHOUSE", "RESIDENCE/UNIT", "UNIT TOWNHOUSE",
              "TOWNHOUSE RESIDENCE", "COMMUNITY", "SHOP", "residence", "VACANT LAND" }

\* parsePropertyLine on lines that differ in nature and primary purpose
InitType ==
  /\ recordsPerChunk \in ChunkSizes
  /\ cache = << >>
  /\ timers = {}
  /\ now = 0
  /\ inflight = << >>
  /\ storedAt = << >>
  /\ ret = [ op |-> "none" ]
  /\ \E n \in Natures, p \in Purposes :
       input = [ fields |-> TypedFields(n, p), line |-> Join(TypedFields(n, p), ";"),
                 year |-> 2020 ]
  /\ parsed = [ done |-> FALSE ]
  /\ NoBatch

SpecType == InitType /\ [][Parse]_vars

\* entries of an archive: a file, a directory, a nested archive that opens
\* (with its entries) and one whose data do not open as an archive
File(name)          == [ entryName |-> name, isDirectory |-> FALSE, opens |-> FALSE, entries |-> << >> ]
Directory(name)     == [ entryName |-> name, isDirectory |-> TRUE, opens |-> FALSE, entries |-> << >> ]
Nested(name, inner) == [ entryName |-> name, isDirectory |-> FALSE, opens |-> TRUE, entries |-> inner ]
Torn(name, inner)   == [ entryName |-> name, isDirectory |-> FALSE, opens |-> FALSE, entries |-> inner ]

\* the archives have up to MaxEntries entries
MaxEntries == 2
UpTo(S) == UNION { [ 1..n -> S ] : n \in 0..MaxEntries }

\* files and directories
PlainEntries ==
  { File("a.dat"), File("B.DAT"), Directory("d.dat/"), File("readme.txt") }

\* the archives without a nested archive, those with nested archives, and
\* those with archives nested in nested archives between two raw data files
FlatArchives == UpTo(PlainEntries)
NestingEntries ==
  PlainEntries \cup { Torn("bad.zip", << File("lost.dat") >>), Directory("old.zip/") }
  \cup { Nested("W1.ZIP", z) : z \in FlatArchives }
NestingArchives == UpTo(NestingEntries)
ZipTrees ==
  NestingArchives
  \cup { << File("first.dat"), Nested("week.zip", z), File("last.dat") >> : z \in NestingArchives }
  \cup { << File("first.dat"), Torn("week.zip", << File("lost.dat") >>), File("last.dat") >> }

InitScan ==
  /\ recordsPerChunk \in ChunkSizes
  /\ cache = << >>
  /\ timers = {}
  /\ now = 0
  /\ inflight = << >>
  /\ storedAt = << >>
  /\ ret = [ op |-> "none" ]
  /\ \E z \in ZipTrees : input = [ zip |-> z ]
  /\ parsed = [ done |-> FALSE ]
  /\ NoBatch

SpecScan == InitScan /\ [][Scan]_vars

\* a validated record as the chunk writer receives it
Sale(address, suburb, price, date) ==
  [ address |-> address, suburb |-> suburb, postcode |-> "2325",
    propertyType |-> "Residence", salePrice |-> price * Scale, saleDate |-> date,
    districtCode |-> "001", area |-> 10118, year |-> 2021, zoning |-> "R2",
    natureOfProperty |-> "R" ]

\* the records the chunk writer is tried on: repeat sales of two addresses
\* that agree in their first nine characters, and single sales
SaleRecords ==
  { Sale("103 RAWSON ST", "ABERDARE", 300000, "2021-03-01"),
    Sale("103 RAWSON ST", "ABERDARE", 310000, "2021-02-15"),
    Sale("103 RAWSON RD", "BALLINA", 600000, "2021-05-05"),
    Sale("103 RAWSON RD", "BALLINA", 650000, "2021-08-01"),
    Sale("5 HIGH ST", "ABERDARE", 550000, "2021-07-01") }

\* the lists of up to MaxRecords different records of a set
MaxRecords == 5
ListsOf(S) ==
  UNION { { l \in [ 1..n -> S ] : \A i, j \in 1..n : i # j => l[i] # l[j] } :
            n \in 0..MaxRecords }

\* config.recordsPerChunk in the runs of the chunk writer
WriterChunkSizes == { 1, 2, 3 }

\* one archive of 2021 whose raw data parse to a list of SaleRecords
InitChunks ==
  /\ recordsPerChunk \in WriterChunkSizes
  /\ cache = << >>
  /\ timers = {}
  /\ now = 0
  /\ inflight = << >>
  /\ storedAt = << >>
  /\ ret = [ op |-> "none" ]
  /\ input = [ fields |-> << >>, line |-> "", year |-> 0 ]
  /\ parsed = [ done |-> FALSE ]
  /\ disk = NoFiles
  /\ yearsProcessed = << >>
  /\ \E l \in ListsOf(SaleRecords) :
       batch = StartOf(<< [ name |-> "2021.zip", records |-> l ] >>, 0)

\* a second archive of the year 2020
UpdateArchive ==
  [ name |-> "2020-update.zip", content |-> Join(<<
      SaleLine("", "7", "King St", "Wallsend", "20201101", "550000", "R", "RESIDENCE"),
      SaleLine("", "12", "Low St", "Aberdare", "20201105", "410000", "R", "RESIDENCE") >>, "\n") ]

\* the data directories the batch is run on
ArchiveLists ==
  { FixtureArchives,
    << FixtureArchives[3], UpdateArchive >>,
    << FixtureArchives[4], FixtureArchives[3] >> }

\* allProperties of each archive
Validated ==
  [ a \in UNION { Range(l) : l \in ArchiveLists } |->
      parseDATContentOptimized(a.content, extractYear(a.name)) ]

\* the archives of a data directory as the batch run meets them: the name
\* and the records of each
BatchInput(l) == [ i \in 1..Len(l) |-> [ name |-> l[i].name, records |-> Validated[l[i]] ] ]

InitBatch ==
  /\ recordsPerChunk \in ChunkSizes
  /\ cache = << >>
  /\ timers = {}
  /\ now = 0
  /\ inflight = << >>
  /\ storedAt = << >>
  /\ ret = [ op |-> "none" ]
  /\ input = [ fields |-> << >>, line |-> "", year |-> 0 ]
  /\ parsed = [ done |-> FALSE ]
  /\ disk = NoFiles
  /\ yearsProcessed = << >>
  /\ \E l \in ArchiveLists : batch = StartOf(BatchInput(l), MaxFailures)

\* processDataForGitHub, with writes and reads that fail
NextBatch ==
  \/ ProcessArchive
  \/ \E f \in DOMAIN disk \ { MasterPath } : BuildIndex({ f })
  \/ BuildIndex({})
  \/ Rerun

\* processDataForGitHub
NextChunks ==
  \/ ProcessArchive
  \/ BuildIndex({})
  \/ Rerun

SpecBatch  == InitBatch /\ [][NextBatch]_vars
SpecChunks == InitChunks /\ [][NextChunks]_vars

(***************************************************************************)
(* The programs that make a batch run: main of process-data.js and of      *)
(* process-data-verbose.js.  batch holds the program that runs, the source *)
(* directory it is given, and, once the process has ended, its exit status *)
(* and whether it has printed that the processing completed successfully.  *)
(***************************************************************************)
Programs == { "process-data", "process-data-verbose" }

\* a file of the source directory that is no archive
Notes == [ name |-> "notes.txt", content |-> "" ]

\* the source directory: absent, or with the files fs.readdir lists
SourceDirectories ==
  { [ exists |-> FALSE, files |-> << >> ],
    [ exists |-> TRUE, files |-> << >> ],
    [ exists |-> TRUE, files |-> << Notes >> ] }
  \cup { [ exists |-> TRUE, files |-> l ] : l \in ArchiveLists }
  \cup { [ exists |-> TRUE, files |-> << Notes >> \o l ] : l \in ArchiveLists }

\* f => f.toLowerCase().endsWith('.zip')
IsZip(f) == endsWith(toLowerCase(f.name), ".zip")

\* a process that has ended with the given exit status
Exited(b, code, success) ==
  [ b EXCEPT !.phase = "exited", !.code = code, !.success = success ]

ReadmePath == "README.md"

\* main up to the loop over the archives: the verbose program leaves with
\* status 1 when the directory is absent or lists no archive; readdir throws
\* on an absent directory, processDataForGitHub throws it again and main
\* leaves with status 1
Main ==
  /\ batch.phase = "main"
  /\ \E zipFiles \in { Filter(IsZip, batch.source.files) } :
       batch' =
         IF batch.program = "process-data-verbose"
            /\ (~batch.source.exists \/ Len(zipFiles) = 0)
         THEN Exited(batch, 1, FALSE)
         ELSE IF ~batch.source.exists
         THEN Exited(batch, 1, FALSE)
         ELSE [ batch EXCEPT !.phase = "archives", !.archives = BatchInput(zipFiles) ]
  /\ UNCHANGED << readVars, parseVars, disk, yearsProcessed >>

\* finalizeGitHubStructure, then main prints that the processing completed
\* successfully and the process ends with status 0
Finish ==
  /\ batch.phase = "done"
  /\ "program" \in DOMAIN batch
  /\ disk' = WriteFile(disk, ReadmePath,
                       [ properties |-> batch.totalProperties, years |-> yearsProcessed ])
  /\ batch' = [ Exited(batch, 0, TRUE) EXCEPT !.log = Append(@, ReadmePath) ]
  /\ UNCHANGED << readVars, parseVars, yearsProcessed >>

InitMain ==
  /\ recordsPerChunk \in ChunkSizes
  /\ cache = << >>
  /\ timers = {}
  /\ now = 0
  /\ inflight = << >>
  /\ storedAt = << >>
  /\ ret = [ op |-> "none" ]
  /\ input = [ fields |-> << >>, line |-> "", year |-> 0 ]
  /\ parsed = [ done |-> FALSE ]
  /\ disk = NoFiles
  /\ yearsProcessed = << >>
  /\ \E program \in Programs, source \in SourceDirectories :
       batch = [ StartOf(<< >>, MaxFailures) EXCEPT !.phase = "main" ]
               @@ [ program |-> program, source |-> source, code |-> 0, success |-> FALSE ]

NextMain ==
  \/ Main
  \/ ProcessArchive
  \/ BuildIndex({})
  \/ Finish

SpecMain == InitMain /\ [][NextMain]_vars
(***************************************************************************)
(* Properties                                                              *)
(***************************************************************************)
\* the result of the last call is one of fetchGitHubFile
FetchReturned == ret.op \in { "fetchGitHubFile", "https.get" }

\* C1: once a fetched artifact is cached, every later call for its name is
\* answered from the cache, without a request, until the artifact lifetime
\* of that entry has elapsed, and the first call after that sends a request.
C1_CachedUntilTTL ==
  (FetchReturned /\ ret.age # -1) =>
    /\ ret.age < ArtifactTTL => ~ret.remote
    /\ ret.age >= ArtifactTTL => ret.remote

\* C2: fetchGitHubFile never throws or rejects; a transport error, a non-200
\* status and an unparseable body each resolve to null and leave the cache
\* (and its eviction timers) as they were.
C2_FailureResolvesNull ==
  [][ InflightCount' < InflightCount =>
        /\ ~ret'.threw
        /\ ret'.outcome # "ok" =>
             (ret'.value = null /\ cache' = cache /\ timers' = timers) ]_vars

\* a fetch failed on an unparseable body while another artifact was cached
C2_Witness ==
  /\ ret.op = "fetchGitHubFile"
  /\ ret.outcome = "unparseable"
  /\ ret.value = null
  /\ cache # << >>

\* C3: every record searchAddressFromGitHub returns, computed or from the
\* cache, has an address that contains the query, both lowercased.
C3_ResultsContainQuery ==
  ret.op = "searchAddressFromGitHub" =>
    \A i \in 1..Len(ret.value) :
      includes(toLowerCase(ret.value[i].address), toLowerCase(ret.query))

\* a query with capitals was answered from the cache with records
C3_Witness ==
  /\ ret.op = "searchAddressFromGitHub"
  /\ ret.hit
  /\ ret.query = "High"
  /\ Len(ret.value) > 1

\* C4: the list searchAddressFromGitHub returns is in descending order of
\* sale date: of two returned records that both have a sale date, the one
\* with the later date comes first, also when other records have none.
C4_DescendingSaleDate ==
  ret.op = "searchAddressFromGitHub" =>
    \A i, j \in 1..Len(ret.value) :
      ( /\ i < j
        /\ DateValue(ret.value[i].saleDate) # NaN
        /\ DateValue(ret.value[j].saleDate) # NaN )
      => DateValue(ret.value[i].saleDate) >= DateValue(ret.value[j].saleDate)

\* C5: searchAddressFromGitHub and searchPriceFromGitHub return at most
\* limit records, computed or from the cache.
C5_AtMostLimit ==
  ret.op \in { "searchAddressFromGitHub", "searchPriceFromGitHub" } =>
    Len(ret.value) <= ret.limit

\* a price search was answered from an entry longer than its limit
C5_Witness ==
  /\ ret.op = "searchPriceFromGitHub"
  /\ ret.hit
  /\ Len(cache[PriceKey(ret.filter)]) > ret.limit
  /\ Len(ret.value) = ret.limit

\* the years the master index lists for an address, as numbers
ListedYears(address) ==
  LET years == Get(Store[MasterPath], address)
  IN  { DigitsValue(years[i].key) : i \in 1..Len(years) }

\* the three most recent of a set of years
MostRecent(years) == { y \in years : Cardinality({ z \in years : z > y }) < 3 }

\* C6: for each candidate address the search examines at most 3 of the years
\* the master index lists for it, and only years among its 3 most recent.
C6_ThreeMostRecentYears ==
  (ret.op = "searchAddressFromGitHub" /\ ~ret.hit) =>
    \A a \in { ret.examined[i].address : i \in 1..Len(ret.examined) } :
      LET examined == { DigitsValue(ret.examined[i].year) :
                          i \in { j \in 1..Len(ret.examined) : ret.examined[j].address = a } }
      IN  /\ Cardinality(examined) <= 3
          /\ examined \subseteq MostRecent(ListedYears(a))

\* C7: every record searchPriceFromGitHub returns has a sale price within
\* the filter's band and, when a suburb is given, a suburb that contains it,
\* both lowercased.
C7_WithinFilters ==
  ret.op = "searchPriceFromGitHub" =>
    \A i \in 1..Len(ret.value) :
      /\ ret.value[i].salePrice >= ret.filter.minPrice * Scale
      /\ ret.value[i].salePrice <= ret.filter.maxPrice * Scale
      /\ ret.filter.suburb # "" =>
           includes(toLowerCase(ret.value[i].suburb), toLowerCase(ret.filter.suburb))

\* C8: the entry a price search stored is under a key that no search with
\* other filters looks up, an absent suburb or year being a value of its own.
C8_DistinctFiltersDistinctEntries ==
  (ret.op = "searchPriceFromGitHub" /\ ~ret.hit /\ Cached(PriceKey(ret.filter))) =>
    \A g \in PriceFilters : g # ret.filter => PriceKey(g) # PriceKey(ret.filter)

\* the number of records the master index counts for an address
RECURSIVE SumCounts(_, _)
SumCounts(years, i) ==
  IF i > Len(years) THEN 0 ELSE years[i].val + SumCounts(years, i + 1)

ListedCount(address) == SumCounts(Get(Store[MasterPath], address), 1)

PriceTenths(text) ==
  CASE text = "-5"         -> -50
    [] text = "999.9"      -> 9999
    [] text = "1000"       -> 10000
    [] text = "1000.5"     -> 10005
    [] text = "1001"       -> 10010
    [] text = "260000"     -> 2600000
    [] text = "49999999.9" -> 499999999
    [] text = "50000000"   -> 500000000
    [] OTHER               -> NaN

\* C10: parsePropertyLine returns a record exactly when the line has at
\* least 20 fields, unit, house number and street do not compose to an empty
\* address, the suburb is not empty and the price is above 1000 and below
\* 50,000,000; otherwise it returns null.
C10_RecordIffValid ==
  parsed.done =>
    LET f == input.fields
    IN  (parsed.value # null) <=>
          /\ Len(f) >= 20
          /\ trim(f[7] \o f[8] \o f[9]) # ""
          /\ f[10] # ""
          /\ PriceTenths(f[16]) # NaN
          /\ PriceTenths(f[16]) > 10000
          /\ PriceTenths(f[16]) < 500000000

\* a line whose price is 1001 was accepted
C10_Witness ==
  /\ parsed.done
  /\ parsed.value # null
  /\ input.fields[16] = "1001"
  /\ parsed.value.salePrice = 10010

\* the rules of the classification in their order, as [applies, type], for
\* the nature and the primary purpose of the line that was parsed
TypeRules ==
  LET nature  == input.fields[18]
      purpose == input.fields[19]
  IN  << [ applies |-> nature = "V",                    type |-> "Vacant Land" ],
         [ applies |-> nature = "R",                    type |-> "Residence" ],
         [ applies |-> includes(purpose, "RESIDENCE"),  type |-> "House" ],
         [ applies |-> includes(purpose, "UNIT"),       type |-> "Unit" ],
         [ applies |-> includes(purpose, "TOWNHOUSE"),  type |-> "Townhouse" ],
         [ applies |-> nature = "3" /\ purpose # "",    type |-> purpose ],
         [ applies |-> TRUE,                            type |-> "Property" ] >>

\* C11: the property type of a record is the type of the first rule of the
\* cascade that applies to its nature and primary purpose: V, R, purpose
\* containing RESIDENCE, UNIT, TOWNHOUSE, nature "3" with a purpose (the
\* purpose verbatim), and Property otherwise.
C11_FirstMatchingRule ==
  (parsed.done /\ parsed.value # null /\ Len(input.fields) >= 19) =>
    \E i \in 1..Len(TypeRules) :
      /\ TypeRules[i].applies
      /\ \A j \in 1..(i - 1) : ~TypeRules[j].applies
      /\ parsed.value.propertyType = TypeRules[i].type

\* a purpose that names both a residence and a unit was classified House
C11_Witness ==
  /\ parsed.done
  /\ parsed.value # null
  /\ input.fields[18] = "3"
  /\ input.fields[19] = "RESIDENCE/UNIT"
  /\ parsed.value.propertyType = "House"

\* the last archive step wrote every file of its year
Written == batch.phase # "none" /\ batch.last.archive > 0 /\ batch.last.fail = 0

\* the records of the archive that was processed last
LastRecords == batch.archives[batch.last.archive].records

\* the sum of the counts a manifest lists
RECURSIVE SumChunks(_, _)
SumChunks(chunks, i) ==
  IF i > Len(chunks) THEN 0 ELSE chunks[i].count + SumChunks(chunks, i + 1)

\* C12: for n records and recordsPerChunk = c the chunk writer writes
\* ceil(n/c) chunks named by the ids 0, 1, ..., each of c records but the
\* last, which has the remaining 1..c; the manifest's total is n and is the
\* sum of the counts it lists.
C12_ChunkSizes ==
  Written =>
    \A n \in { Len(LastRecords) } : \A c \in { recordsPerChunk } :
    \A y \in { NatToString(batch.last.year) } :
    \A manifest \in { disk[ManifestPath(y)] } : \A m \in { Len(manifest.chunks) } :
      /\ m * c >= n
      /\ m > 0 => (m - 1) * c < n
      /\ \A k \in 1..m :
           \A chunk \in { disk[ChunkPath(y, manifest.chunks[k].filename)] } :
             /\ manifest.chunks[k].filename = ChunkName(batch.last.year, k - 1)
             /\ Len(chunk.properties) = (IF k < m THEN c ELSE n - (m - 1) * c)
             /\ Len(chunk.properties) \in 1..c
             /\ chunk.count = Len(chunk.properties)
             /\ manifest.chunks[k].count = chunk.count
      /\ \A f \in DOMAIN disk \ { MasterPath } :
           "chunkId" \in DOMAIN disk[f] =>
             \E k \in 1..m : f = ChunkPath(y, manifest.chunks[k].filename)
      /\ manifest.totalProperties = n
      /\ SumChunks(manifest.chunks, 1) = n

\* five records were written with two records per chunk: chunks of 2, 2, 1
C12_Witness ==
  /\ Written
  /\ recordsPerChunk = 2
  /\ Len(LastRecords) = 5
  /\ disk[ManifestPath("2021")].totalProperties = 5
  /\ [ k \in 1..3 |-> disk[ManifestPath("2021")].chunks[k].count ] = << 2, 2, 1 >>

\* the records of the chunks of the last year in chunk-id order
ChunkRecords ==
  Let(NatToString(batch.last.year), LAMBDA y :
    Flatten([ k \in 1..Len(disk[ManifestPath(y)].chunks) |->
                disk[ChunkPath(y, disk[ManifestPath(y)].chunks[k].filename)].properties ], 1))

\* record k of r comes before record j of r: its address is smaller, or the
\* addresses are equal and it comes first in r
ComesBefore(r, k, j) ==
  Let(localeCompare(r[k].address, r[j].address),
      LAMBDA order : order < 0 \/ (order = 0 /\ k < j))

\* C13: the records of the chunks of a year, read in chunk-id order, are the
\* input records in ascending order of address, records of equal address in
\* their original order.
C13_SortedStable ==
  Written =>
    \A r \in { LastRecords } : \A out \in { ChunkRecords } :
      /\ Len(out) = Len(r)
      /\ \A j \in 1..Len(r) :
           out[1 + Cardinality({ k \in 1..Len(r) : ComesBefore(r, k, j) })]
             = compressProperty(r[j])

\* two addresses with two sales each came interleaved and out of order, and
\* each pair was written in the order it came in
C13_Witness ==
  /\ Written
  /\ [ i \in 1..Len(LastRecords) |-> LastRecords[i].address ]
       = << "5 HIGH ST", "103 RAWSON ST", "103 RAWSON RD", "103 RAWSON ST", "103 RAWSON RD" >>
  /\ LastRecords[2].salePrice > LastRecords[4].salePrice
  /\ [ i \in 1..Len(ChunkRecords) |-> ChunkRecords[i]["a"] ]
       = << "103 RAWSON RD", "103 RAWSON RD", "103 RAWSON ST", "103 RAWSON ST", "5 HIGH ST" >>
  /\ ChunkRecords[3]["$"] = LastRecords[2].salePrice
  /\ ChunkRecords[4]["$"] = LastRecords[4].salePrice

IndexTriples(index) ==
  UNION { { << index[i].key, index[i].val[j].key, index[i].val[j].val >> :
              j \in 1..Len(index[i].val) } : i \in 1..Len(index) }

\* the [address, year] of every record of the archives, the address
\* lowercased and the year that of the record's archive
Sold(archives) ==
  Flatten([ i \in 1..Len(archives) |->
              Let(NatToString(extractYear(archives[i].name)), LAMBDA y :
                [ k \in 1..Len(archives[i].records) |->
                    [ addr |-> toLowerCase(archives[i].records[k].address), year |-> y ] ]) ], 1)

\* the [address, year, count] triples of the validated records of the archives
CountsOf(archives) ==
  Let(Sold(archives), LAMBDA sold :
    { << sold[i].addr, sold[i].year,
         Cardinality({ k \in 1..Len(sold) : sold[k] = sold[i] }) >> : i \in 1..Len(sold) })

ExpectedCounts == [ b \in { BatchInput(l) : l \in ArchiveLists } |-> CountsOf(b) ]

\* C15: after a batch run in which every archive was processed (and every
\* file was read back), the master index lists for each lowercased address
\* and year the number of validated records of that address and year, and
\* nothing else.
C15_ExactCounts ==
  (batch.phase = "done" /\ batch.failed = {} /\ batch.unread = {}) =>
    IndexTriples(disk[MasterPath]) = ExpectedCounts[batch.archives]

\* the number of records of the archives, of the year the file f lies in,
\* whose lowercased address is a
SalesOf(archives, f, a) ==
  LET InYear(i) == startsWith(f, NatToString(extractYear(archives[i].name)) \o "/addresses/")
  IN  Cardinality({ ik \in UNION { { << i, k >> : k \in 1..Len(archives[i].records) } :
                                     i \in { j \in 1..Len(archives) : InYear(j) } } :
                      toLowerCase(archives[ik[1]].records[ik[2]].address) = a })

\* C16: every address file in the output directory is that of an address
\* with more than one validated record in the year of its directory; there
\* is none of an address with exactly one.
C16_OnlyRepeatSales ==
  batch.phase # "none" =>
    \A f \in DOMAIN disk \ { MasterPath } :
      "address" \in DOMAIN disk[f] =>
        \A a \in { toLowerCase(disk[f].address) } :
          /\ disk[f].count > 1
          /\ SalesOf(batch.archives, f, a) > 1

\* a year with two sales of one address and one sale each of two others
\* has the address file of the first and no file of 5 HIGH ST
C16_Witness ==
  /\ Written
  /\ Len(LastRecords) = 4
  /\ Cardinality({ i \in 1..4 : LastRecords[i].address = "103 RAWSON ST" }) = 2
  /\ Cardinality({ i \in 1..4 : LastRecords[i].address = "5 HIGH ST" }) = 1
  /\ AddressPath("2021", "103 rawson st") \in DOMAIN disk
  /\ disk[AddressPath("2021", "103 rawson st")].address = "103 RAWSON ST"
  /\ AddressPath("2021", "5 high st") \notin DOMAIN disk

\* the records of r whose lowercased address is a, in the order of r
RecordsOf(r, a) ==
  LET At(p) == toLowerCase(p.address) = a
  IN  Filter(At, r)

\* C17: after a year is processed, for every address with more than one
\* record in it the file named by the hash of the lowercased address holds
\* that address, the number of its records and all of its records.
C17_AddressFileOfEveryRepeat ==
  Written =>
    \A y \in { NatToString(batch.last.year) } :
    \A a \in { toLowerCase(LastRecords[i].address) : i \in 1..Len(LastRecords) } :
    \A sales \in { RecordsOf(LastRecords, a) } :
      Len(sales) > 1 =>
        \A f \in { AddressPath(y, a) } :
          /\ f \in DOMAIN disk
          /\ toLowerCase(disk[f].address) = a
          /\ disk[f].count = Len(sales)
          /\ disk[f].properties = Map(compressProperty, sales)

\* C18: when reading a manifest or a chunk has failed during the index
\* construction, master-address-index.json is either absent or holds the
\* counts of all the chunks of all processed years.
C18_NoPartialIndex ==
  (batch.phase = "done" /\ batch.unread # {}) =>
    \/ MasterPath \notin DOMAIN disk
    \/ disk[MasterPath] = createOptimizedIndices(disk, yearsProcessed)

\* C19: an archive step in which the write of a chunk fails leaves the
\* year's manifest and the set of processed years as they were, and the run
\* goes on: every step without a failure writes the chunks and the manifest
\* of its archive and adds its year, and when the index is built every
\* archive has been gone through and the year of every archive that did not
\* fail is a processed year.
C19_ChunkFailureAbortsYearOnly ==
  [][ /\ (batch.phase = "archives" /\ batch.at <= Len(batch.archives) /\ batch' # batch) =>
           /\ batch'.phase = "archives"
           /\ batch'.at = batch.at + 1
           /\ \A y \in { NatToString(batch'.last.year) } :
                /\ batch'.last.fail \in 1..batch'.last.chunks =>
                     /\ yearsProcessed' = yearsProcessed
                     /\ ManifestPath(y) \in DOMAIN disk' <=> ManifestPath(y) \in DOMAIN disk
                     /\ ManifestPath(y) \in DOMAIN disk =>
                          disk'[ManifestPath(y)] = disk[ManifestPath(y)]
                /\ batch'.last.fail = 0 =>
                     /\ batch'.last.year \in Range(yearsProcessed')
                     /\ ManifestPath(y) \in DOMAIN disk'
                     /\ disk'[ManifestPath(y)].created = batch.run
                     /\ disk'[ManifestPath(y)].totalProperties
                          = Len(batch.archives[batch.at].records)
                     /\ \A k \in 1..Len(disk'[ManifestPath(y)].chunks) :
                          ChunkPath(y, disk'[ManifestPath(y)].chunks[k].filename)
                            \in DOMAIN disk'
      /\ (batch.phase = "archives" /\ batch'.phase = "done") =>
           /\ batch.at = Len(batch.archives) + 1
           /\ \A i \in 1..Len(batch.archives) :
                (\A x \in batch.failed : x.archive # i) =>
                  extractYear(batch.archives[i].name) \in Range(yearsProcessed) ]_vars

\* the second chunk of 2021 could not be written: its first chunk is on
\* disk without a manifest, 2021 is no processed year, and 2020, which came
\* after it, is processed and has its manifest
C19_Witness ==
  /\ batch.phase = "archives"
  /\ batch.failed = { [ archive |-> 1, write |-> 2 ] }
  /\ batch.archives[1].name = "2021.zip"
  /\ batch.last.archive = 2
  /\ batch.last.fail = 0
  /\ yearsProcessed = << 2020 >>
  /\ ChunkPath("2021", ChunkName(2021, 0)) \in DOMAIN disk
  /\ ManifestPath("2021") \notin DOMAIN disk
  /\ ManifestPath("2020") \in DOMAIN disk

\* an entry that is a raw data file, and one that is a nested archive
IsRawData(e) == ~e.isDirectory /\ endsWith(toLowerCase(e.entryName), ".dat")
IsArchive(e) == ~e.isDirectory /\ endsWith(toLowerCase(e.entryName), ".zip")

\* the places of the entries of a tree of archives, as index paths that
\* lead through nested archives that open
RECURSIVE Places(_)
Places(zip) ==
  UNION { { << i >> }
          \cup (IF IsArchive(zip[i]) /\ zip[i].opens
                THEN { << i >> \o p : p \in Places(zip[i].entries) } ELSE {}) :
          i \in 1..Len(zip) }

RECURSIVE EntryAt(_, _)
EntryAt(zip, p) ==
  IF Len(p) = 1 THEN zip[p[1]] ELSE EntryAt(zip[p[1]].entries, Tail(p))

\* place p comes before place q in depth-first order
PlaceBefore(p, q) ==
  \/ Len(p) < Len(q) /\ SubSeq(q, 1, Len(p)) = p
  \/ \E k \in 1..Len(p) :
       /\ k <= Len(q)
       /\ SubSeq(p, 1, k - 1) = SubSeq(q, 1, k - 1)
       /\ p[k] < q[k]

\* C20: the scan of a finite tree of archives ends and returns the raw data
\* files at every depth, directories left out, each once and in depth-first
\* order; what lies in a nested archive that does not open is absent, and
\* the files before and after such an archive are returned.
C20_AllRawDataDepthFirst ==
  (parsed.done /\ "zip" \in DOMAIN input) =>
    \A found \in { { p \in Places(input.zip) : IsRawData(EntryAt(input.zip, p)) } } :
      /\ Len(parsed.value) = Cardinality(found)
      /\ \A p \in found :
           parsed.value[1 + Cardinality({ q \in found : PlaceBefore(q, p) })]
             = EntryAt(input.zip, p)

\* an archive between two raw data files held an archive that does not open
\* and then an archive with two raw data files: four files were returned
C20_Witness ==
  /\ parsed.done
  /\ input.zip = << File("first.dat"),
                    Nested("week.zip", << Torn("bad.zip", << File("lost.dat") >>),
                                          Nested("W1.ZIP", << File("B.DAT"), File("a.dat") >>) >>),
                    File("last.dat") >>
  /\ parsed.value = << File("first.dat"), File("B.DAT"), File("a.dat"), File("last.dat") >>

\* C21: a batch run whose source directory is absent or holds no archive
\* ends with a nonzero exit status and does not report success.
C21_NoArchivesAborts ==
  (batch.phase = "exited"
   /\ (~batch.source.exists \/ Filter(IsZip, batch.source.files) = << >>))
    => batch.code # 0 /\ ~batch.success

\* the calls of the read side
ReadCalls ==
  { "searchAddressFromGitHub", "getPropertyFromGitHub", "searchPriceFromGitHub",
    "getAvailableYearsFromGitHub" }

\* C22: the four calls of the read side never throw to their caller, whatever
\* fetch fails, the one of the master index included: they return a list.
C22_NeverThrows ==
  ret.op \in ReadCalls => ~ret.threw /\ ret.value \in Seq(Range(ret.value))

\* the lookup of an address has returned the empty list when the master
\* index could not be fetched
C22_Witness ==
  /\ ret.op = "getPropertyFromGitHub"
  /\ ~ret.hit
  /\ MasterPath \in ret.failed
  /\ ~ret.threw
  /\ ret.value = << >>

\* C23: no call is served from the cache later than the lifetime of the
\* entry's class after the entry was stored: 15 minutes for artifacts, 5 for
\* address searches, 10 for property lookups, 5 for price searches.
C23_NotServedAfterLifetime ==
  /\ (ret.op = "fetchGitHubFile" /\ ret.outcome = "cached") => ret.age \in 0..ArtifactTTL
  /\ (ret.op = "searchAddressFromGitHub" /\ ret.hit) => ret.age \in 0..SearchTTL
  /\ (ret.op = "getPropertyFromGitHub" /\ ret.hit) => ret.age \in 0..PropertyTTL
  /\ (ret.op = "searchPriceFromGitHub" /\ ret.hit) => ret.age \in 0..PriceTTL

\* a property lookup made after the lifetime of the stored result had
\* elapsed was computed anew
C23_Witness ==
  /\ ret.op = "getPropertyFromGitHub"
  /\ ret.age > PropertyTTL
  /\ ~ret.hit
  /\ Len(ret.value) > 0

\* the records of the address in the first chunks of the year's manifest
\* that the fallback scans, decompressed, in the order of the chunks
RECURSIVE InFirstChunks(_, _, _, _)
InFirstChunks(year, chunks, i, address) ==
  IF i > Len(chunks) THEN << >>
  ELSE Let(Store[ChunkPath(year, chunks[i].filename)].properties, LAMBDA properties :
         [ k \in 1..Len(properties) |-> decompressProperty(properties[k]) ])
       \o InFirstChunks(year, chunks, i + 1, address)

\* the fast path yields no record of the address: the address file does not
\* arrive, or holds no record of the address
FastPathEmpty ==
  \/ AddressPath(input.year, input.address) \notin DOMAIN Store \ input.down
  \/ \A k \in 1..Len(Store[AddressPath(input.year, input.address)].properties) :
       toLowerCase(Store[AddressPath(input.year, input.address)].properties[k]["a"])
         # toLowerCase(input.address)

\* C24: when the address file yields no record of the address,
\* loadPropertiesForAddressYear returns every record of the address that is
\* stored in the first 3 chunks of the year's manifest.
C24_FallbackFindsAll ==
  (parsed.done /\ "down" \in DOMAIN input /\ FastPathEmpty) =>
    \A all \in { InFirstChunks(input.year,
                               slice(Store[ManifestPath(input.year)].chunks, AddressScanChunks),
                               1, input.address) } :
      \A k \in 1..Len(all) :
        toLowerCase(all[k].address) = toLowerCase(input.address)
          => all[k] \in Range(parsed.value.out)

\* the kinds of paths the batch run writes, and the year directory of a path
IsManifestPath(path) == endsWith(path, "/manifest.json")
IsChunkPath(path)    == includes(path, "/properties-")
YearDir(path)        == SubSeq(path, 1, 4)

\* C25: in a batch run no chunk of a year is written after the manifest of
\* that year, the master index is not written before every archive has been
\* processed, and after that it has been written once, as the last artifact.
C25_StageOrder ==
  batch.phase \in { "archives", "done" } =>
    /\ \A i, j \in 1..Len(batch.log) :
         (i < j /\ IsManifestPath(batch.log[i]) /\ IsChunkPath(batch.log[j]))
           => YearDir(batch.log[i]) # YearDir(batch.log[j])
    /\ batch.phase = "archives" => MasterPath \notin Range(batch.log)
    /\ batch.phase = "done" =>
         /\ batch.at > Len(batch.archives)
         /\ batch.log[Len(batch.log)] = MasterPath
         /\ MasterPath \notin Range(SubSeq(batch.log, 1, Len(batch.log) - 1))

\* C26: over fixed artifacts a search returns the list it computes on an
\* empty cache, whatever calls were made before it.
C26_IndependentOfEarlierCalls ==
  /\ ret.op = "searchAddressFromGitHub" =>
       ret.value = AddressSearches[recordsPerChunk][ret.query][ret.limit][{}].out
  /\ ret.op = "searchPriceFromGitHub" =>
       ret.value = PriceSearches[recordsPerChunk][ret.filter][ret.limit][{}].out

\* the number of validated records of the archives that resolve to the year
RecordsOfYear(archives, yr) ==
  Cardinality(UNION { { << i, k >> : k \in 1..Len(archives[i].records) } :
                      i \in { j \in 1..Len(archives) : extractYear(archives[j].name) = yr } })

\* the sum of the totals of the manifests of the years from years[i] on
RECURSIVE ManifestTotals(_, _)
ManifestTotals(years, i) ==
  IF i > Len(years) THEN 0
  ELSE disk[ManifestPath(NatToString(years[i]))].totalProperties
       + ManifestTotals(years, i + 1)

\* C27: after a batch run without a failure the manifest of every year, and
\* the chunks it lists, cover the validated records of all the archives that
\* resolve to that year, and stats.totalProperties is the sum of the totals
\* of the manifests.
C27_SameYearArchivesCovered ==
  (batch.phase = "done" /\ batch.failed = {}) =>
    /\ \A n \in 1..Len(yearsProcessed) :
         \A manifest \in { disk[ManifestPath(NatToString(yearsProcessed[n]))] } :
           /\ manifest.totalProperties = RecordsOfYear(batch.archives, yearsProcessed[n])
           /\ SumChunks(manifest.chunks, 1) = RecordsOfYear(batch.archives, yearsProcessed[n])
    /\ batch.totalProperties = ManifestTotals(yearsProcessed, 1)

\* C28: whatever the interleaving of overlapping calls for one artifact, the
\* value that the last write of its key stored stays in the cache until the
\* artifact lifetime after that write: no timer of an earlier write removes it.
C28_LastWriteKeepsFullLifetime ==
  \A f \in FetchNames :
    Age(GithubKey(f)) \in 0..(ArtifactTTL - 1) => Cached(GithubKey(f))
====
